---- MODULE Spec2Model ----
(***************************************************************************)
(* Log replay of a Delta table scan (kernel/src/scan/log_replay.rs).       *)
(*                                                                         *)
(* scan_action_iter adapts an upstream iterator of action batches          *)
(* (newest first, each tagged log / checkpoint) to an iterator of          *)
(* (scan rows, selection vector, per-row transforms).  The scanner owns    *)
(* the seen-set of file-action keys; AddRemoveDedupVisitor walks the rows  *)
(* of one batch and refines the data-skipping selection vector.            *)
(*                                                                         *)
(* Spec      the upstream assembles batches row by row and the map/filter  *)
(*           step runs on each item.                                       *)
(* SpecIter  the consumer's next calls on the returned iterator.           *)
(* SpecCodec printing and parsing of column names                          *)
(*           (kernel/src/expressions/column_names.rs).                     *)
(* SpecFiles one batch of file actions under each kind of scan: file       *)
(*           identity, partition values, pruning and the seen-set.         *)
(* SpecPair  two scanners, each with its own seen-set, fed batches side by *)
(*           side.                                                         *)
(* SpecRows  batches of rows that mix the file-action columns and          *)
(*           incomplete deletion vectors.                                  *)
(* SpecVisit the visitor built and called on its own, with any number of   *)
(*           getters.                                                      *)
(* SpecRead  read_result_next on a read-result iterator                    *)
(*           (ffi/src/engine_funcs.rs).                                    *)
(* SpecSync  read_files of the sync engine                                 *)
(*           (kernel/src/engine/sync/mod.rs).                              *)
(***************************************************************************)
EXTENDS Integers, Sequences, FiniteSets, TLC

\* Option::None of a nullable string column / of an Option<String>.
None == "None"

\* Largest number of rows of one action batch.
MaxRows == 3

-----------------------------------------------------------------------------
(* Logical schema, transform specs and the scan predicate                   *)

\* The logical schema handed to scan_action_iter: a data column and a
\* partition column whose physical name differs from its logical name.
LogicalSchema ==
    << [name |-> "value", physical |-> "value",    type |-> "integer"],
       [name |-> "part",  physical |-> "col-part", type |-> "integer"] >>

Static(e)      == [kind |-> "Static", expr |-> e, idx |-> 0]
Partition(idx) == [kind |-> "Partition", expr |-> None, idx |-> idx]

NoTransform      == [some |-> FALSE, elems |-> << >>]
SomeTransform(s) == [some |-> TRUE, elems |-> s]

\* Transform specs a scan may be given (Option<Arc<Transform>>); field_idx
\* is 0-based.  TransformStd is what get_static_transform builds for
\* LogicalSchema; TransformDup names the same partition field twice;
\* TransformOob names a field index outside the logical schema.
TransformStd    == SomeTransform(<< Static("value"), Partition(1) >>)
TransformStatic == SomeTransform(<< Static("value") >>)
TransformDup    == SomeTransform(<< Partition(1), Partition(1) >>)
TransformOob    == SomeTransform(<< Static("value"), Partition(2) >>)

\* The physical predicate  value > 5 AND col-part = 1 , or none.
NoPredicate == [some |-> FALSE]
ThePredicate ==
    [some |-> TRUE,
     op |-> "and",
     left  |-> [op |-> "gt", col |-> "value",    lit |-> 5],
     right |-> [op |-> "eq", col |-> "col-part", lit |-> 1]]

\* The physical predicate  col-part = 1 , over the partition column alone.
PartPredicate == [some |-> TRUE, op |-> "eq", col |-> "col-part", lit |-> 1]

\* The (transform, physical_predicate) arguments of the scans explored.
Scans ==
    { << NoTransform,     NoPredicate  >>,
      << NoTransform,     ThePredicate >>,
      << TransformStd,    NoPredicate  >>,
      << TransformStd,    ThePredicate >>,
      << TransformStatic, ThePredicate >>,
      << TransformDup,    NoPredicate  >>,
      << TransformOob,    ThePredicate >> }

-----------------------------------------------------------------------------
(* Rows of an action batch: the columns the visitor and the data-skipping   *)
(* filter read.                                                             *)

NoDv     == [storageType |-> None, pathOrInlineDv |-> None, offset |-> -1]
SomeDv   == [storageType |-> "u",  pathOrInlineDv |-> "ab", offset |-> 1]
BrokenDv == [storageType |-> "u",  pathOrInlineDv |-> None, offset |-> -1]

NoStats      == [some |-> FALSE, max |-> 0]
MaxStats(n)  == [some |-> TRUE,  max |-> n]

NoMap    == [n \in {} |-> None]
PartMap(v) == [n \in {"col-part"} |-> v]

AddRow(path, pv, dv, stats) ==
    [add_path |-> path, add_pv |-> pv, add_dv |-> dv, add_stats |-> stats,
     rm_path |-> None, rm_pv |-> NoMap, rm_dv |-> NoDv]
RemoveRow(path, pv, dv) ==
    [add_path |-> None, add_pv |-> NoMap, add_dv |-> NoDv, add_stats |-> NoStats,
     rm_path |-> path, rm_pv |-> pv, rm_dv |-> dv]
\* A metadata / protocol row: neither add.path nor remove.path.
OtherRow ==
    [add_path |-> None, add_pv |-> NoMap, add_dv |-> NoDv, add_stats |-> NoStats,
     rm_path |-> None, rm_pv |-> NoMap, rm_dv |-> NoDv]

\* The rows the upstream may produce.
Rows ==
    { AddRow("f", PartMap("1"), NoDv, MaxStats(9)),     \* passes skipping and pruning
      AddRow("f", PartMap("1"), NoDv, MaxStats(3)),     \* max(value) <= 5: skipped
      AddRow("f", PartMap("2"), NoDv, NoStats),         \* col-part = 2: pruned
      AddRow("f", PartMap("x"), NoDv, NoStats),         \* partition value does not parse
      AddRow("f", NoMap,        SomeDv, NoStats),       \* other key, partition value absent
      AddRow("f", PartMap("1"), BrokenDv, NoStats),     \* DV without pathOrInlineDv
      RemoveRow("f", PartMap("2"), NoDv),               \* col-part = 2: fails the predicate
      OtherRow }

-----------------------------------------------------------------------------
(* File-action key                                                          *)

\* DeletionVectorDescriptor::unique_id_from_parts: storage type and
\* path-or-inline concatenated, "@offset" appended when an offset is given.
unique_id_from_parts(storage_type, path_or_inline, offset) ==
    IF offset = -1
      THEN storage_type \o path_or_inline
      ELSE storage_type \o path_or_inline \o "@" \o ToString(offset)

\* A FileActionKey that leaves the deletion vector out of the identity.
FileActionKey_path_only(path, dv_unique_id) == [path |-> path, dv_unique_id |-> None]

\* FileActionKey::new
FileActionKey(path, dv_unique_id) == [path |-> path, dv_unique_id |-> dv_unique_id]

-----------------------------------------------------------------------------
(* Scalars, partition-value parsing, three-valued predicate evaluation      *)

NullScalar(type)   == [type |-> type, null |-> TRUE,  value |-> 0]
IntScalar(n)       == [type |-> "integer", null |-> FALSE, value |-> n]

\* scan::parse_partition_value: an absent raw value is a null of the
\* field's type; otherwise the text is parsed according to the type.
ParsePartitionScalar(raw, type) ==
    IF raw = None THEN [ok |-> TRUE, scalar |-> NullScalar(type)]
    ELSE IF type = "integer" /\ raw = "1" THEN [ok |-> TRUE, scalar |-> IntScalar(1)]
    ELSE IF type = "integer" /\ raw = "2" THEN [ok |-> TRUE, scalar |-> IntScalar(2)]
    ELSE [ok |-> FALSE, scalar |-> NullScalar(type)]

\* A comparison over the resolved column values: null when the column is
\* unknown or null.
Compare3(e, env) ==
    IF e.col \notin DOMAIN env THEN "null"
    ELSE IF env[e.col].null THEN "null"
    ELSE IF e.op = "gt" THEN (IF env[e.col].value > e.lit THEN "true" ELSE "false")
    ELSE (IF env[e.col].value = e.lit THEN "true" ELSE "false")

And3(a, b) ==
    IF a = "false" \/ b = "false" THEN "false"
    ELSE IF a = "null" \/ b = "null" THEN "null"
    ELSE "true"

\* DefaultPredicateEvaluator::eval_sql_where over a conjunction of two
\* comparisons or a single comparison: "true", "false" or "null" (unknown).
eval_sql_where(pred, env) ==
    IF pred.op = "and"
      THEN And3(Compare3(pred.left, env), Compare3(pred.right, env))
      ELSE Compare3(pred, env)

\* DataSkippingFilter::apply for one row: the predicate rewritten over the
\* add's stats (col > lit becomes max(col) > lit; a column without stats is
\* null); the row is dropped only when the result is provably false.  Rows
\* that are not adds have no add.stats and so are always kept.
StatsEnv(row) ==
    IF row.add_path # None /\ row.add_stats.some
      THEN [n \in {"value"} |-> IntScalar(row.add_stats.max)]
      ELSE [n \in {} |-> IntScalar(0)]

DataSkippingApply(filter, actions) ==
    [i \in 1..Len(actions) |-> eval_sql_where(filter, StatsEnv(actions[i])) # "false"]

-----------------------------------------------------------------------------
(* AddRemoveDedupVisitor                                                    *)

Ok(b)   == [ok |-> TRUE,  val |-> b,     err |-> ""]
Err(e)  == [ok |-> FALSE, val |-> FALSE, err |-> e]

\* check_and_record_seen with the log-batch test inverted: keys of log
\* batches are not recorded, keys of checkpoint batches are.
check_and_record_seen_inverted(v, key) ==
    IF key \in v.seen
      THEN [v |-> v, seen_it |-> TRUE]
      ELSE [v |-> [v EXCEPT !.seen = IF ~v.is_log_batch THEN @ \cup {key} ELSE @],
            seen_it |-> FALSE]

\* check_and_record_seen that never records the key.
check_and_record_seen_no_insert(v, key) ==
    [v |-> v, seen_it |-> key \in v.seen]

\* check_and_record_seen that records the key of every batch, log or
\* checkpoint.
check_and_record_seen_always(v, key) ==
    IF key \in v.seen
      THEN [v |-> v, seen_it |-> TRUE]
      ELSE [v |-> [v EXCEPT !.seen = @ \cup {key}], seen_it |-> FALSE]

\* check_and_record_seen that drops a key it finds from the set.
check_and_record_seen_evicts(v, key) ==
    IF key \in v.seen
      THEN [v |-> [v EXCEPT !.seen = @ \ {key}], seen_it |-> TRUE]
      ELSE [v |-> [v EXCEPT !.seen = IF v.is_log_batch THEN @ \cup {key} ELSE @],
            seen_it |-> FALSE]

\* check_and_record_seen that reports a newly recorded key as already seen.
check_and_record_seen_reports_seen(v, key) ==
    IF key \in v.seen
      THEN [v |-> v, seen_it |-> TRUE]
      ELSE [v |-> [v EXCEPT !.seen = IF v.is_log_batch THEN @ \cup {key} ELSE @],
            seen_it |-> TRUE]

\* AddRemoveDedupVisitor::check_and_record_seen: v is the visitor; the
\* result is the visitor afterwards and whether the key had been seen.
check_and_record_seen(v, key) ==
    IF key \in v.seen
      THEN [v |-> v, seen_it |-> TRUE]
      ELSE [v |-> [v EXCEPT !.seen = IF v.is_log_batch THEN @ \cup {key} ELSE @],
            seen_it |-> FALSE]

\* parse_partition_value that looks the raw value up under the field's
\* logical name instead of its physical name.
parse_partition_value_by_logical_name(v, field_idx, partition_values) ==
    IF field_idx >= Len(v.logical_schema)
      THEN [ok |-> FALSE, err |-> "InternalError: out of bounds partition column field index",
            name |-> "", scalar |-> NullScalar("")]
      ELSE LET field == v.logical_schema[field_idx + 1]
               name  == field.name
               raw   == IF name \in DOMAIN partition_values
                          THEN partition_values[name] ELSE None
               p     == ParsePartitionScalar(raw, field.type)
           IN  IF p.ok
                 THEN [ok |-> TRUE, err |-> "", name |-> name, scalar |-> p.scalar]
                 ELSE [ok |-> FALSE, err |-> "ParseError", name |-> name, scalar |-> p.scalar]

\* parse_partition_value that takes a field index outside the schema for a
\* partition column without a value.
parse_partition_value_oob_null(v, field_idx, partition_values) ==
    IF field_idx >= Len(v.logical_schema)
      THEN [ok |-> TRUE, err |-> "", name |-> "", scalar |-> NullScalar("")]
      ELSE LET field == v.logical_schema[field_idx + 1]
               name  == field.physical
               raw   == IF name \in DOMAIN partition_values
                          THEN partition_values[name] ELSE None
               p     == ParsePartitionScalar(raw, field.type)
           IN  IF p.ok
                 THEN [ok |-> TRUE, err |-> "", name |-> name, scalar |-> p.scalar]
                 ELSE [ok |-> FALSE, err |-> "ParseError", name |-> name, scalar |-> p.scalar]

\* parse_partition_value that fails when the row has no value for the field.
parse_partition_value_missing_is_error(v, field_idx, partition_values) ==
    IF field_idx >= Len(v.logical_schema)
      THEN [ok |-> FALSE, err |-> "InternalError: out of bounds partition column field index",
            name |-> "", scalar |-> NullScalar("")]
      ELSE LET field == v.logical_schema[field_idx + 1]
               name  == field.physical
               raw   == IF name \in DOMAIN partition_values
                          THEN partition_values[name] ELSE None
               p     == ParsePartitionScalar(raw, field.type)
           IN  IF p.ok /\ raw # None
                 THEN [ok |-> TRUE, err |-> "", name |-> name, scalar |-> p.scalar]
                 ELSE [ok |-> FALSE, err |-> "ParseError", name |-> name, scalar |-> p.scalar]

\* AddRemoveDedupVisitor::parse_partition_value (field_idx is 0-based).
parse_partition_value(v, field_idx, partition_values) ==
    IF field_idx >= Len(v.logical_schema)
      THEN [ok |-> FALSE, err |-> "InternalError: out of bounds partition column field index",
            name |-> "", scalar |-> NullScalar("")]
      ELSE LET field == v.logical_schema[field_idx + 1]
               name  == field.physical
               raw   == IF name \in DOMAIN partition_values
                          THEN partition_values[name] ELSE None
               p     == ParsePartitionScalar(raw, field.type)
           IN  IF p.ok
                 THEN [ok |-> TRUE, err |-> "", name |-> name, scalar |-> p.scalar]
                 ELSE [ok |-> FALSE, err |-> "ParseError", name |-> name, scalar |-> p.scalar]

\* AddRemoveDedupVisitor::parse_partition_values: the Partition elements of
\* the transform, in order, collected into a map field_idx -> (name, scalar);
\* the first failure is returned.
parse_partition_values(v, transform, partition_values) ==
    LET parts == { j \in 1..Len(transform) : transform[j].kind = "Partition" }
        res(j) == parse_partition_value(v, transform[j].idx, partition_values)
        bad   == { j \in parts : ~res(j).ok }
    IN  IF bad # {}
          THEN LET j == CHOOSE j \in bad : \A k \in bad : j <= k
               IN  [ok |-> FALSE, err |-> res(j).err, vals |-> << >>]
          ELSE [ok |-> TRUE, err |-> "",
                vals |-> [idx \in { transform[j].idx : j \in parts } |->
                            LET j == CHOOSE j \in parts : transform[j].idx = idx
                            IN  [name |-> res(j).name, scalar |-> res(j).scalar]]]

Column(name)    == [tag |-> "column",  name |-> name, scalar |-> NullScalar("")]
Literal(scalar) == [tag |-> "literal", name |-> "",   scalar |-> scalar]

\* AddRemoveDedupVisitor::get_transform_expr: each Partition element takes
\* (removes) its parsed value from the map, so an index that is absent, or
\* that an earlier element already took, is an InternalError.
get_transform_expr(transform, partition_values) ==
    LET missing(j) ==
            /\ transform[j].kind = "Partition"
            /\ \/ transform[j].idx \notin DOMAIN partition_values
               \/ \E k \in 1..(j - 1) : /\ transform[k].kind = "Partition"
                                        /\ transform[k].idx = transform[j].idx
    IN  IF \E j \in 1..Len(transform) : missing(j)
          THEN [ok |-> FALSE, err |-> "InternalError: missing partition value", struct |-> << >>]
          ELSE [ok |-> TRUE, err |-> "",
                struct |-> [j \in 1..Len(transform) |->
                              IF transform[j].kind = "Partition"
                                THEN Literal(partition_values[transform[j].idx].scalar)
                                ELSE Column(transform[j].expr)]]

\* is_file_partition_pruned that keeps a file only when the filter is
\* definitely true of it.
is_file_partition_pruned_unless_true(v, partition_values) ==
    IF DOMAIN partition_values = {} THEN FALSE
    ELSE IF ~v.partition_filter.some THEN FALSE
    ELSE LET names == { partition_values[idx].name : idx \in DOMAIN partition_values }
             env   == [n \in names |->
                         partition_values[CHOOSE idx \in DOMAIN partition_values :
                                            partition_values[idx].name = n].scalar]
         IN  eval_sql_where(v.partition_filter, env) # "true"

\* AddRemoveDedupVisitor::is_file_partition_pruned
is_file_partition_pruned(v, partition_values) ==
    IF DOMAIN partition_values = {} THEN FALSE
    ELSE IF ~v.partition_filter.some THEN FALSE
    ELSE LET names == { partition_values[idx].name : idx \in DOMAIN partition_values }
             env   == [n \in names |->
                         partition_values[CHOOSE idx \in DOMAIN partition_values :
                                            partition_values[idx].name = n].scalar]
         IN  eval_sql_where(v.partition_filter, env) = "false"

NoExpr      == [some |-> FALSE, struct |-> << >>]
SomeExpr(s) == [some |-> TRUE,  struct |-> s]

\* resize_with that leaves the vector as it is: earlier rows get no None.
resize_with_nopad(exprs, i) == exprs

\* Vec::resize_with(i, Default::default): truncate or pad with None to i.
resize_with(exprs, i) ==
    [k \in 1..i |-> IF k <= Len(exprs) THEN exprs[k] ELSE NoExpr]

\* is_valid_add that partition-prunes removes as well as adds (by the
\* remove's own partitionValues).
is_valid_add_prunes_removes(v, i, row) ==
    LET is_add == row.add_path # None
        is_file == is_add \/ (v.is_log_batch /\ row.rm_path # None)
        path == IF is_add THEN row.add_path ELSE row.rm_path
        dv   == IF is_add THEN row.add_dv ELSE row.rm_dv
        dv_err == dv.storageType # None /\ dv.pathOrInlineDv = None
        dv_unique_id ==
            IF dv.storageType = None THEN None
            ELSE unique_id_from_parts(dv.storageType, dv.pathOrInlineDv, dv.offset)
        prune == v.transform.some
        parsed == IF prune
                    THEN parse_partition_values(v, v.transform.elems,
                                                IF is_add THEN row.add_pv ELSE row.rm_pv)
                    ELSE [ok |-> TRUE, err |-> "", vals |-> << >>]
        file_key == FileActionKey(path, dv_unique_id)
        chk == check_and_record_seen(v, file_key)
        v1  == [chk.v EXCEPT !.checked = @ \cup {i}]
        tr  == get_transform_expr(v.transform.elems, parsed.vals)
    IN  IF ~is_file THEN [v |-> v, ret |-> Ok(FALSE)]
        ELSE IF dv_err THEN [v |-> v, ret |-> Err("MissingData: deletionVector.pathOrInlineDv")]
        ELSE IF ~parsed.ok THEN [v |-> v, ret |-> Err(parsed.err)]
        ELSE IF prune /\ is_file_partition_pruned(v, parsed.vals)
          THEN [v |-> v, ret |-> Ok(FALSE)]
        ELSE IF chk.seen_it \/ ~is_add THEN [v |-> v1, ret |-> Ok(FALSE)]
        ELSE IF ~v.transform.some THEN [v |-> v1, ret |-> Ok(TRUE)]
        ELSE IF ~tr.ok THEN [v |-> v1, ret |-> Err(tr.err)]
        ELSE [v |-> [v1 EXCEPT !.row_transform_exprs =
                                  Append(resize_with(@, i - 1), SomeExpr(tr.struct))],
              ret |-> Ok(TRUE)]

\* is_valid_add that checks and records the key before partition pruning.
is_valid_add_records_first(v, i, row) ==
    LET is_add == row.add_path # None
        is_file == is_add \/ (v.is_log_batch /\ row.rm_path # None)
        path == IF is_add THEN row.add_path ELSE row.rm_path
        dv   == IF is_add THEN row.add_dv ELSE row.rm_dv
        dv_err == dv.storageType # None /\ dv.pathOrInlineDv = None
        dv_unique_id ==
            IF dv.storageType = None THEN None
            ELSE unique_id_from_parts(dv.storageType, dv.pathOrInlineDv, dv.offset)
        prune == v.transform.some /\ is_add
        parsed == IF prune
                    THEN parse_partition_values(v, v.transform.elems, row.add_pv)
                    ELSE [ok |-> TRUE, err |-> "", vals |-> << >>]
        file_key == FileActionKey(path, dv_unique_id)
        chk == check_and_record_seen(v, file_key)
        v1  == [chk.v EXCEPT !.checked = @ \cup {i}]
        tr  == get_transform_expr(v.transform.elems, parsed.vals)
    IN  IF ~is_file THEN [v |-> v, ret |-> Ok(FALSE)]
        ELSE IF dv_err THEN [v |-> v, ret |-> Err("MissingData: deletionVector.pathOrInlineDv")]
        ELSE IF ~parsed.ok THEN [v |-> v, ret |-> Err(parsed.err)]
        ELSE IF chk.seen_it \/ ~is_add THEN [v |-> v1, ret |-> Ok(FALSE)]
        ELSE IF prune /\ is_file_partition_pruned(v, parsed.vals)
          THEN [v |-> v1, ret |-> Ok(FALSE)]
        ELSE IF ~v.transform.some THEN [v |-> v1, ret |-> Ok(TRUE)]
        ELSE IF ~tr.ok THEN [v |-> v1, ret |-> Err(tr.err)]
        ELSE [v |-> [v1 EXCEPT !.row_transform_exprs =
                                  Append(resize_with(@, i - 1), SomeExpr(tr.struct))],
              ret |-> Ok(TRUE)]

\* is_valid_add that reads pathOrInlineDv as an optional column: a deletion
\* vector without it counts as no deletion vector.
is_valid_add_dv_path_optional(v, i, row) ==
    LET is_add == row.add_path # None
        is_file == is_add \/ (v.is_log_batch /\ row.rm_path # None)
        path == IF is_add THEN row.add_path ELSE row.rm_path
        dv   == IF is_add THEN row.add_dv ELSE row.rm_dv
        dv_unique_id ==
            IF dv.storageType = None \/ dv.pathOrInlineDv = None THEN None
            ELSE unique_id_from_parts(dv.storageType, dv.pathOrInlineDv, dv.offset)
        prune == v.transform.some /\ is_add
        parsed == IF prune
                    THEN parse_partition_values(v, v.transform.elems, row.add_pv)
                    ELSE [ok |-> TRUE, err |-> "", vals |-> << >>]
        file_key == FileActionKey(path, dv_unique_id)
        chk == check_and_record_seen(v, file_key)
        v1  == [chk.v EXCEPT !.checked = @ \cup {i}]
        tr  == get_transform_expr(v.transform.elems, parsed.vals)
    IN  IF ~is_file THEN [v |-> v, ret |-> Ok(FALSE)]
        ELSE IF ~parsed.ok THEN [v |-> v, ret |-> Err(parsed.err)]
        ELSE IF prune /\ is_file_partition_pruned(v, parsed.vals)
          THEN [v |-> v, ret |-> Ok(FALSE)]
        ELSE IF chk.seen_it \/ ~is_add THEN [v |-> v1, ret |-> Ok(FALSE)]
        ELSE IF ~v.transform.some THEN [v |-> v1, ret |-> Ok(TRUE)]
        ELSE IF ~tr.ok THEN [v |-> v1, ret |-> Err(tr.err)]
        ELSE [v |-> [v1 EXCEPT !.row_transform_exprs =
                                  Append(resize_with(@, i - 1), SomeExpr(tr.struct))],
              ret |-> Ok(TRUE)]

\* is_valid_add that looks for remove.path first: a row with both paths is
\* taken for a Remove.
is_valid_add_remove_first(v, i, row) ==
    LET is_add == row.add_path # None /\ ~(v.is_log_batch /\ row.rm_path # None)
        is_file == is_add \/ (v.is_log_batch /\ row.rm_path # None)
        path == IF is_add THEN row.add_path ELSE row.rm_path
        dv   == IF is_add THEN row.add_dv ELSE row.rm_dv
        dv_err == dv.storageType # None /\ dv.pathOrInlineDv = None
        dv_unique_id ==
            IF dv.storageType = None THEN None
            ELSE unique_id_from_parts(dv.storageType, dv.pathOrInlineDv, dv.offset)
        prune == v.transform.some /\ is_add
        parsed == IF prune
                    THEN parse_partition_values(v, v.transform.elems, row.add_pv)
                    ELSE [ok |-> TRUE, err |-> "", vals |-> << >>]
        file_key == FileActionKey(path, dv_unique_id)
        chk == check_and_record_seen(v, file_key)
        v1  == [chk.v EXCEPT !.checked = @ \cup {i}]
        tr  == get_transform_expr(v.transform.elems, parsed.vals)
    IN  IF ~is_file THEN [v |-> v, ret |-> Ok(FALSE)]
        ELSE IF dv_err THEN [v |-> v, ret |-> Err("MissingData: deletionVector.pathOrInlineDv")]
        ELSE IF ~parsed.ok THEN [v |-> v, ret |-> Err(parsed.err)]
        ELSE IF prune /\ is_file_partition_pruned(v, parsed.vals)
          THEN [v |-> v, ret |-> Ok(FALSE)]
        ELSE IF chk.seen_it \/ ~is_add THEN [v |-> v1, ret |-> Ok(FALSE)]
        ELSE IF ~v.transform.some THEN [v |-> v1, ret |-> Ok(TRUE)]
        ELSE IF ~tr.ok THEN [v |-> v1, ret |-> Err(tr.err)]
        ELSE [v |-> [v1 EXCEPT !.row_transform_exprs =
                                  Append(resize_with(@, i - 1), SomeExpr(tr.struct))],
              ret |-> Ok(TRUE)]

\* AddRemoveDedupVisitor::is_valid_add for row i (1-based here) of the
\* batch: the visitor afterwards and the DeltaResult<bool> returned.
\* v.checked collects the rows for which check_and_record_seen ran.
is_valid_add(v, i, row) ==
    LET is_add == row.add_path # None
        is_file == is_add \/ (v.is_log_batch /\ row.rm_path # None)
        path == IF is_add THEN row.add_path ELSE row.rm_path
        dv   == IF is_add THEN row.add_dv ELSE row.rm_dv
        dv_err == dv.storageType # None /\ dv.pathOrInlineDv = None
        dv_unique_id ==
            IF dv.storageType = None THEN None
            ELSE unique_id_from_parts(dv.storageType, dv.pathOrInlineDv, dv.offset)
        prune == v.transform.some /\ is_add
        parsed == IF prune
                    THEN parse_partition_values(v, v.transform.elems, row.add_pv)
                    ELSE [ok |-> TRUE, err |-> "", vals |-> << >>]
        file_key == FileActionKey(path, dv_unique_id)
        chk == check_and_record_seen(v, file_key)
        v1  == [chk.v EXCEPT !.checked = @ \cup {i}]
        tr  == get_transform_expr(v.transform.elems, parsed.vals)
    IN  IF ~is_file THEN [v |-> v, ret |-> Ok(FALSE)]
        ELSE IF dv_err THEN [v |-> v, ret |-> Err("MissingData: deletionVector.pathOrInlineDv")]
        ELSE IF ~parsed.ok THEN [v |-> v, ret |-> Err(parsed.err)]
        ELSE IF prune /\ is_file_partition_pruned(v, parsed.vals)
          THEN [v |-> v, ret |-> Ok(FALSE)]
        ELSE IF chk.seen_it \/ ~is_add THEN [v |-> v1, ret |-> Ok(FALSE)]
        ELSE IF ~v.transform.some THEN [v |-> v1, ret |-> Ok(TRUE)]
        ELSE IF ~tr.ok THEN [v |-> v1, ret |-> Err(tr.err)]
        ELSE [v |-> [v1 EXCEPT !.row_transform_exprs =
                                  Append(resize_with(@, i - 1), SomeExpr(tr.struct))],
              ret |-> Ok(TRUE)]

\* The loop of visit examining every row, whatever its selection bit.
RECURSIVE visit_rows_all(_, _, _)
visit_rows_all(v, actions, i) ==
    IF i > Len(actions) THEN [v |-> v, ret |-> Ok(TRUE)]
    ELSE LET r == is_valid_add(v, i, actions[i])
         IN  IF ~r.ret.ok THEN [v |-> [r.v EXCEPT !.failed = i], ret |-> r.ret]
             ELSE visit_rows_all([r.v EXCEPT !.selection_vector[i] = r.ret.val],
                                 actions, i + 1)

\* The loop of AddRemoveDedupVisitor::visit from row i on: only rows whose
\* selection bit is set are examined; the first error ends the walk
\* (v.failed is the row that returned it).
RECURSIVE visit_rows(_, _, _)
visit_rows(v, actions, i) ==
    IF i > Len(actions) THEN [v |-> v, ret |-> Ok(TRUE)]
    ELSE IF ~v.selection_vector[i] THEN visit_rows(v, actions, i + 1)
    ELSE LET r == is_valid_add(v, i, actions[i])
         IN  IF ~r.ret.ok THEN [v |-> [r.v EXCEPT !.failed = i], ret |-> r.ret]
             ELSE visit_rows([r.v EXCEPT !.selection_vector[i] = r.ret.val],
                             actions, i + 1)

\* RowVisitor::selected_column_names_and_types: nine columns for a log
\* batch, the five add columns for a checkpoint batch.
selected_column_count(is_log_batch) == IF is_log_batch THEN 9 ELSE 5

\* visit without the check of the number of getters.
visit_unchecked(v, actions, getters) == visit_rows(v, actions, 1)

\* AddRemoveDedupVisitor::visit
visit(v, actions, getters) ==
    IF getters # (IF v.is_log_batch THEN 9 ELSE 5)
      THEN [v |-> v, ret |-> Err("InternalError: Wrong number of AddRemoveDedupVisitor getters")]
      ELSE visit_rows(v, actions, 1)

\* The add transform evaluated over the add rows only.
add_transform_evaluate_adds_only(actions) ==
    LET is_add(row) == row.add_path # None
    IN  [i \in 1..Len(SelectSeq(actions, is_add)) |->
           [path |-> SelectSeq(actions, is_add)[i].add_path]]

\* get_add_transform_expr evaluated over every row of the batch: the scan
\* row of row i carries the add's path (null for rows that are not adds).
add_transform_evaluate(actions) ==
    [i \in 1..Len(actions) |-> [path |-> actions[i].add_path]]

\* LogReplayScanner::process_scan_batch.  scanner is the LogReplayScanner;
\* eval_ok says whether the engine's add-transform evaluator succeeds.
\* Returns the scanner afterwards, the DeltaResult<ScanData> and the
\* visitor's log (rows checked against the seen-set, row that failed).
process_scan_batch(scanner, actions, logical_schema, transform, is_log_batch, eval_ok) ==
    LET selection_vector ==
            IF scanner.data_skipping_filter.some
              THEN DataSkippingApply(scanner.data_skipping_filter, actions)
              ELSE [i \in 1..Len(actions) |-> TRUE]
        visitor == [seen |-> scanner.seen,
                    selection_vector |-> selection_vector,
                    logical_schema |-> logical_schema,
                    transform |-> transform,
                    partition_filter |-> scanner.partition_filter,
                    row_transform_exprs |-> << >>,
                    is_log_batch |-> is_log_batch,
                    checked |-> {},
                    failed |-> 0]
        r  == visit(visitor, actions, selected_column_count(is_log_batch))
        sc == [scanner EXCEPT !.seen = r.v.seen]
        lg == [checked |-> r.v.checked, failed |-> r.v.failed]
    IN  IF ~r.ret.ok
          THEN [scanner |-> sc, visit_log |-> lg,
                result |-> [status |-> "err", err |-> r.ret.err]]
        ELSE IF ~eval_ok
          THEN [scanner |-> sc, visit_log |-> lg,
                result |-> [status |-> "err", err |-> "EngineError: evaluate"]]
          ELSE [scanner |-> sc, visit_log |-> lg,
                result |-> [status |-> "ok",
                            scan_rows |-> add_transform_evaluate(actions),
                            selection_vector |-> r.v.selection_vector,
                            row_transform_exprs |-> r.v.row_transform_exprs]]

\* The filter letting only successful results with a selected row through.
filter_passes_drops_errors(res) ==
    /\ res.status = "ok"
    /\ \E i \in DOMAIN res.selection_vector : res.selection_vector[i]

\* The filter letting every result through.
filter_passes_all(res) == TRUE

\* The filter of scan_action_iter: errors pass, a result passes when its
\* selection vector contains a true.
filter_passes(res) ==
    IF res.status = "ok"
      THEN \E i \in DOMAIN res.selection_vector : res.selection_vector[i]
      ELSE TRUE

-----------------------------------------------------------------------------
(* Column names (kernel/src/expressions/column_names.rs).  A String is a    *)
(* sequence of characters, a ColumnName the sequence of its fields (path).  *)

\* Longest string handed to the parser, and the size of the largest column
\* name printed (its fields plus the characters in them).
MaxTextLen  == 5
MaxNameSize == 5

\* The backtick (written by name here).
FIELD_ESCAPE_CHAR == "BACKTICK"
FIELD_SEPARATOR   == "."
COLUMN_SEPARATOR  == ","

\* The characters strings are made of: a letter, a digit, the underscore,
\* the three special characters, a blank and a character that is none of
\* these.
Chars == { "a", "0", "_", FIELD_ESCAPE_CHAR, ".", ",", " ", "-" }

\* char::is_ascii_digit, char::is_ascii_alphanumeric, char::is_whitespace
is_ascii_digit(c)        == c \in { "0" }
is_ascii_alphanumeric(c) == c \in { "a", "0" }
is_whitespace(c)         == c \in { " " }

\* is_simple_char that takes the field separator for a simple character.
is_simple_char_or_dot(c) == is_ascii_alphanumeric(c) \/ c = "_" \/ c = FIELD_SEPARATOR

\* is_simple_char
is_simple_char(c) == is_ascii_alphanumeric(c) \/ c = "_"

\* The escaped-field branch of fmt without the doubling of backticks.
write_escaped_no_doubling(s) == s

\* The inner loop of Display::fmt (lines 202-207): every character is
\* written, the escape character twice.
RECURSIVE write_escaped(_)
write_escaped(s) ==
    IF s = << >> THEN << >>
    ELSE (IF Head(s) = FIELD_ESCAPE_CHAR THEN << Head(s), Head(s) >> ELSE << Head(s) >>)
           \o write_escaped(Tail(s))

\* One field as Display::fmt writes it (lines 197-212).
fmt_field(s) ==
    IF \/ s = << >>
       \/ is_ascii_digit(Head(s))
       \/ \E i \in 1..Len(s) : ~is_simple_char(s[i])
      THEN << FIELD_ESCAPE_CHAR >> \o write_escaped(s) \o << FIELD_ESCAPE_CHAR >>
      ELSE s

\* impl Display for ColumnName: the fields in order, a separator before
\* every field but the first.
RECURSIVE fmt(_, _)
fmt(path, i) ==
    IF i > Len(path) THEN << >>
    ELSE (IF i > 1 THEN << FIELD_SEPARATOR >> ELSE << >>) \o fmt_field(path[i])
           \o fmt(path, i + 1)

to_string(col) == fmt(col, 1)

\* drop_leading_whitespace that drops nothing.
drop_leading_whitespace_none(chars) == chars

\* drop_leading_whitespace: what is left of the iterator.
RECURSIVE drop_leading_whitespace(_)
drop_leading_whitespace(chars) ==
    IF chars # << >> /\ is_whitespace(Head(chars))
      THEN drop_leading_whitespace(Tail(chars))
      ELSE chars

\* DeltaResult<String> of the field parsers, with what is left of chars.
FieldOk(name, rest) == [ok |-> TRUE,  err |-> "", name |-> name, rest |-> rest]
FieldErr(e)         == [ok |-> FALSE, err |-> e,  name |-> << >>, rest |-> << >>]

\* parse_simple_field_name that rejects a field without characters.
RECURSIVE parse_simple_field_name_nonempty(_, _, _)
parse_simple_field_name_nonempty(chars, name, first) ==
    IF chars # << >> /\ is_simple_char(Head(chars))
      THEN IF first /\ is_ascii_digit(Head(chars))
             THEN FieldErr("Unescaped field name cannot start with a digit")
             ELSE parse_simple_field_name_nonempty(Tail(chars), Append(name, Head(chars)),
                                                   FALSE)
      ELSE IF name = << >> THEN FieldErr("Empty field name")
      ELSE FieldOk(name, chars)

\* parse_simple_field_name: the loop from the state (name, first).
RECURSIVE parse_simple_field_name(_, _, _)
parse_simple_field_name(chars, name, first) ==
    IF chars # << >> /\ is_simple_char(Head(chars))
      THEN IF first /\ is_ascii_digit(Head(chars))
             THEN FieldErr("Unescaped field name cannot start with a digit")
             ELSE parse_simple_field_name(Tail(chars), Append(name, Head(chars)), FALSE)
      ELSE FieldOk(name, chars)

\* parse_escaped_field_name that closes the field on the first backtick.
RECURSIVE parse_escaped_field_name_first_backtick(_, _)
parse_escaped_field_name_first_backtick(chars, name) ==
    IF chars = << >> THEN FieldErr("No closing BACKTICK after field")
    ELSE IF Head(chars) = FIELD_ESCAPE_CHAR THEN FieldOk(name, Tail(chars))
    ELSE parse_escaped_field_name_first_backtick(Tail(chars), Append(name, Head(chars)))

\* parse_escaped_field_name (called after the opening backtick): the loop
\* from the state name.  A backtick followed by another one is one backtick
\* of the name; a backtick followed by anything else closes the field.
RECURSIVE parse_escaped_field_name(_, _)
parse_escaped_field_name(chars, name) ==
    IF chars = << >> THEN FieldErr("No closing BACKTICK after field")
    ELSE IF Head(chars) = FIELD_ESCAPE_CHAR
      THEN IF Tail(chars) # << >> /\ Head(Tail(chars)) = FIELD_ESCAPE_CHAR
             THEN parse_escaped_field_name(Tail(Tail(chars)), Append(name, FIELD_ESCAPE_CHAR))
             ELSE FieldOk(name, Tail(chars))
      ELSE parse_escaped_field_name(Tail(chars), Append(name, Head(chars)))

\* enum FieldEnding
InputExhausted == "InputExhausted"
NextField      == "NextField"
NextColumn     == "NextColumn"

\* DeltaResult<(ColumnName, FieldEnding)>, with what is left of chars.
NameOk(col, ending, rest) ==
    [ok |-> TRUE, err |-> "", col |-> col, ending |-> ending, rest |-> rest]
NameErr(e) ==
    [ok |-> FALSE, err |-> e, col |-> << >>, ending |-> InputExhausted, rest |-> << >>]

\* The loop of parse_column_name (lines 287-306), entered with
\* ending = NextField: one field, then what follows it.
RECURSIVE parse_fields(_, _)
parse_fields(chars, path) ==
    LET c1 == drop_leading_whitespace(chars)
        f  == IF c1 # << >> /\ Head(c1) = FIELD_ESCAPE_CHAR
                THEN parse_escaped_field_name(Tail(c1), << >>)
                ELSE parse_simple_field_name(c1, << >>, TRUE)
        c2 == drop_leading_whitespace(f.rest)
    IN  IF ~f.ok THEN NameErr(f.err)
        ELSE IF c2 = << >> THEN NameOk(Append(path, f.name), InputExhausted, << >>)
        ELSE IF Head(c2) = FIELD_SEPARATOR THEN parse_fields(Tail(c2), Append(path, f.name))
        ELSE IF Head(c2) = COLUMN_SEPARATOR
          THEN NameOk(Append(path, f.name), NextColumn, Tail(c2))
        ELSE NameErr("Invalid character after field")

\* parse_column_name that takes blank input for the name of one empty field.
parse_column_name_one_empty_field(chars) ==
    LET c0 == drop_leading_whitespace(chars)
    IN  IF c0 # << >> /\ Head(c0) = COLUMN_SEPARATOR THEN NameOk(<< >>, NextColumn, Tail(c0))
        ELSE parse_fields(c0, << >>)

\* parse_column_name
parse_column_name(chars) ==
    LET c0 == drop_leading_whitespace(chars)
    IN  IF c0 = << >> THEN NameOk(<< >>, InputExhausted, << >>)
        ELSE IF Head(c0) = COLUMN_SEPARATOR THEN NameOk(<< >>, NextColumn, Tail(c0))
        ELSE parse_fields(c0, << >>)

\* DeltaResult<ColumnName>
ColOk(col) == [ok |-> TRUE,  err |-> "", col |-> col]
ColErr(e)  == [ok |-> FALSE, err |-> e,  col |-> << >>]

\* from_str that lets a name ended by a column separator through.
from_str_allows_comma(s) ==
    LET r == parse_column_name(s)
    IN  IF ~r.ok THEN ColErr(r.err) ELSE ColOk(r.col)

\* impl FromStr for ColumnName
from_str(s) ==
    LET r == parse_column_name(s)
    IN  IF ~r.ok THEN ColErr(r.err)
        ELSE IF r.ending = NextColumn THEN ColErr("Trailing comma in column name")
        ELSE ColOk(r.col)

\* DeltaResult<Vec<ColumnName>>
ListOk(cols) == [ok |-> TRUE,  err |-> "", cols |-> cols]
ListErr(e)   == [ok |-> FALSE, err |-> e,  cols |-> << >>]

\* The loop of parse_column_name_list (lines 65-69), entered with
\* ending = NextColumn: one more name is parsed and pushed.
RECURSIVE parse_names(_, _)
parse_names(chars, cols) ==
    LET r == parse_column_name(chars)
    IN  IF ~r.ok THEN ListErr(r.err)
        ELSE IF r.ending = NextColumn THEN parse_names(r.rest, Append(cols, r.col))
        ELSE ListOk(Append(cols, r.col))

\* parse_column_name_list that enters the loop whatever the input holds.
parse_column_name_list_no_peek(names) ==
    parse_names(drop_leading_whitespace(names), << >>)

\* ColumnName::parse_column_name_list
parse_column_name_list(names) ==
    LET c0 == drop_leading_whitespace(names)
    IN  IF c0 = << >> THEN ListOk(<< >>) ELSE parse_names(c0, << >>)

\* LogReplayScanner::new: both filters come from the physical predicate,
\* the seen-set is empty.
LogReplayScanner_new(physical_predicate) ==
    [partition_filter |-> physical_predicate,
     data_skipping_filter |-> physical_predicate,
     seen |-> {}]

\* Two scans run side by side, and the (transform, physical_predicate) each
\* scan_action_iter call was given.
ScanIds == { 1, 2 }
PairScan(s) ==
    IF s = 1 THEN << TransformStd, ThePredicate >> ELSE << NoTransform, NoPredicate >>

-----------------------------------------------------------------------------
(* The scan-action iterator as a state machine                              *)

VARIABLES
    seen,                  \* LogReplayScanner.seen
    partition_filter,      \* LogReplayScanner.partition_filter
    data_skipping_filter,  \* LogReplayScanner.data_skipping_filter
    transform,             \* the transform spec the closure captured
    pc,                    \* "upstream": the next item is being produced;
                           \* "returned": the map/filter step has run on it
    actions,               \* the rows of the batch of the current item
    is_log_batch,          \* the tag of the current item
    result,                \* what the map closure returned for the item
    yielded,               \* whether the filter let that result through
    visit_log,             \* rows of the item that reached check_and_record_seen,
                           \* and the row whose is_valid_add failed (0: none)
    seen_before,           \* history: seen when the item was handed over
    tombstones,            \* history: keys of log-batch removes that reached
                           \* check_and_record_seen in earlier items
    errored,               \* history: an earlier item's result was an error
    recorded,              \* history: keys of the rows of earlier log-batch
                           \* items that reached check_and_record_seen
    call,                  \* the consumer's next call on the returned iterator:
                           \* "idle", "running", returned "some" or "none"
    pulls,                 \* upstream items pulled by that call so far
    trace,                 \* history: per upstream item pulled, whether its
                           \* result was an error and whether a row was selected
    out,                   \* history: the positions (in trace) of the items
                           \* whose results were yielded, in the order yielded
    cn_pc,                 \* column names: "start", "name" (a name is being
                           \* collected), "text" (a string is being typed),
                           \* "printed", "reparsed", "parsed", "listed"
    cn_path,               \* ColumnName.path
    cn_text,               \* the String printed or to be parsed
    cn_result,             \* what from_str returned
    cn_list,               \* what parse_column_name_list returned
    scanners,              \* two scans: the LogReplayScanner each one's
                           \* closure owns
    pulled,                \* history: the items pulled so far, each with the
                           \* scan whose iterator pulled it
    mapped,                \* history: what the closure returned for each pull
    vis_pc,                \* a visitor on its own: "new", "built", "visited"
    vis_actions,           \* the batch whose rows it is to visit
    vis,                   \* the AddRemoveDedupVisitor
    vis_getters,           \* the number of getters visit was handed
    vis_ret,               \* what visit returned
    vis_before,            \* history: the visitor when visit was called
    rr_nexts,              \* read-result iterator: history of what data.next()
                           \* gave, call by call
    rr_visits,             \* history: what engine_visitor was invoked with
    rr_rets,               \* history: what each read_result_next call returned
    rf_pc,                 \* read_files: "new", "iter" (an iterator was
                           \* returned), "failed" (Err returned), "ended"
    rf_files,              \* the file list read_files was called with
    rf_schema_ok,          \* whether ArrowSchema::try_from(schema) succeeds
    rf_converted,          \* history: the schema conversion was attempted
    rf_st,                 \* the returned iterator: files taken, the reader
                           \* being drained and its position
    rf_out,                \* history: the items the iterator yielded
    rf_opened              \* history: the File::open calls, each with the
                           \* number of items yielded before it

scan_vars == << seen, partition_filter, data_skipping_filter, transform, pc, actions,
                is_log_batch, result, yielded, visit_log, seen_before, tombstones,
                errored, recorded >>
consumer_vars == << call, pulls, trace, out >>
codec_vars == << cn_pc, cn_path, cn_text, cn_result, cn_list >>
pair_vars == << scanners, pulled, mapped >>
visitor_vars == << vis_pc, vis_actions, vis, vis_getters, vis_ret, vis_before >>
ffi_vars == << rr_nexts, rr_visits, rr_rets >>
sync_vars == << rf_pc, rf_files, rf_schema_ok, rf_converted, rf_st, rf_out, rf_opened >>
engine_vars == << visitor_vars, ffi_vars, sync_vars >>

vars == << scan_vars, consumer_vars, codec_vars, pair_vars, engine_vars >>

config == << partition_filter, data_skipping_filter, transform >>

Pending == [status |-> "pending"]
\* from_str has not been called.
NotParsed == [ok |-> FALSE, err |-> "not parsed", col |-> << >>]
\* parse_column_name_list has not been called.
NotListed == [ok |-> FALSE, err |-> "not parsed", cols |-> << >>]
NoLog   == [checked |-> {}, failed |-> 0]
\* No visitor has been built; visit has not been called.
NoVisitor ==
    [seen |-> {}, selection_vector |-> << >>, logical_schema |-> LogicalSchema,
     transform |-> NoTransform, partition_filter |-> NoPredicate,
     row_transform_exprs |-> << >>, is_log_batch |-> TRUE, checked |-> {}, failed |-> 0]
NotVisited == Err("not visited")
\* The iterator of read_files before any file was taken: no reader in hand.
NotStarted == [idx |-> 0, inner |-> 0, pos |-> 0]

\* The key a file-action row carries: the add's when add.path is present,
\* else the remove's.
RowKey(row) ==
    LET dv == IF row.add_path # None THEN row.add_dv ELSE row.rm_dv
    IN  FileActionKey(IF row.add_path # None THEN row.add_path ELSE row.rm_path,
                      IF dv.storageType = None THEN None
                      ELSE unique_id_from_parts(dv.storageType, dv.pathOrInlineDv,
                                                dv.offset))

IsAdd(row)    == row.add_path # None
IsRemove(row) == row.add_path = None /\ row.rm_path # None

\* scan_action_iter up to the returned iterator: LogReplayScanner::new with
\* an empty seen-set; nothing has been pulled yet.
InitWith(scans) ==
    /\ seen = {}
    /\ \E sc \in scans : /\ transform = sc[1]
                         /\ partition_filter = sc[2]
                         /\ data_skipping_filter = sc[2]
    /\ pc = "upstream"
    /\ actions = << >>
    /\ is_log_batch = TRUE
    /\ result = Pending
    /\ yielded = FALSE
    /\ visit_log = NoLog
    /\ seen_before = {}
    /\ tombstones = {}
    /\ errored = FALSE
    /\ recorded = {}
    /\ call = "idle"
    /\ pulls = 0
    /\ trace = << >>
    /\ out = << >>
    /\ cn_pc = "start"
    /\ cn_path = << >>
    /\ cn_text = << >>
    /\ cn_result = NotParsed
    /\ cn_list = NotListed
    /\ scanners = [s \in ScanIds |-> LogReplayScanner_new(PairScan(s)[2])]
    /\ pulled = << >>
    /\ mapped = << >>
    /\ vis_pc = "new"
    /\ vis_actions = << >>
    /\ vis = NoVisitor
    /\ vis_getters = 0
    /\ vis_ret = NotVisited
    /\ vis_before = NoVisitor
    /\ rr_nexts = << >>
    /\ rr_visits = << >>
    /\ rr_rets = << >>
    /\ rf_pc = "new"
    /\ rf_files = << >>
    /\ rf_schema_ok = TRUE
    /\ rf_converted = FALSE
    /\ rf_st = NotStarted
    /\ rf_out = << >>
    /\ rf_opened = << >>

Init == InitWith(Scans)

\* The upstream action iterator starts on its next item; the history
\* variables take in the item just completed.
UpstreamStart ==
    /\ pc = "returned"
    /\ pc' = "upstream"
    /\ actions' = << >>
    /\ is_log_batch' = TRUE
    /\ result' = Pending
    /\ yielded' = FALSE
    /\ visit_log' = NoLog
    /\ seen_before' = seen
    /\ tombstones' = tombstones \cup
           { RowKey(actions[i]) :
               i \in { j \in visit_log.checked : is_log_batch /\ IsRemove(actions[j]) } }
    /\ errored' = (errored \/ result.status = "err")
    /\ recorded' = recorded \cup
           { RowKey(actions[i]) : i \in { j \in visit_log.checked : is_log_batch } }
    /\ UNCHANGED << seen, config, consumer_vars, codec_vars, pair_vars, engine_vars >>

\* The upstream reads one more row into the batch it is producing.
UpstreamRow(row) ==
    /\ pc = "upstream"
    /\ Len(actions) < MaxRows
    /\ actions' = Append(actions, row)
    /\ UNCHANGED << seen, config, pc, is_log_batch, result, yielded, visit_log,
                    seen_before, tombstones, errored, recorded, consumer_vars,
                    codec_vars, pair_vars, engine_vars >>

\* The closure given to map, for an item Ok((batch, is_log)): it runs
\* process_scan_batch on the scanner it owns.
map_closure(is_log, eval_ok) ==
    LET scanner == [partition_filter |-> partition_filter,
                    data_skipping_filter |-> data_skipping_filter,
                    seen |-> seen]
    IN  \E r \in { process_scan_batch(scanner, actions, LogicalSchema, transform,
                                      is_log, eval_ok) } :
          /\ seen' = r.scanner.seen
          /\ result' = r.result
          /\ visit_log' = r.visit_log

\* An iterator poisoned by an earlier error: once an item has failed, every
\* later batch is answered with an error instead of being processed.
NextBatch_poisoned(is_log, eval_ok) ==
    /\ pc = "upstream"
    /\ IF errored
         THEN /\ result' = [status |-> "err", err |-> "poisoned"]
              /\ UNCHANGED << seen, visit_log >>
         ELSE map_closure(is_log, eval_ok)
    /\ yielded' = filter_passes(result')
    /\ is_log_batch' = is_log
    /\ pc' = "returned"
    /\ UNCHANGED << config, actions, seen_before, tombstones, errored, recorded,
                    consumer_vars, codec_vars, pair_vars, engine_vars >>

\* The upstream yields Ok((batch, is_log)): the map closure runs on it and
\* the filter decides whether the result is yielded.
NextBatch(is_log, eval_ok) ==
    /\ pc = "upstream"
    /\ map_closure(is_log, eval_ok)
    /\ yielded' = filter_passes(result')
    /\ is_log_batch' = is_log
    /\ pc' = "returned"
    /\ UNCHANGED << config, actions, seen_before, tombstones, errored, recorded,
                    consumer_vars, codec_vars, pair_vars, engine_vars >>

\* The upstream yields Err: the closure returns it (action_res?) without
\* touching the scanner, and the filter lets it through.
NextErr ==
    /\ pc = "upstream"
    /\ actions = << >>
    /\ result' = [status |-> "err", err |-> "upstream"]
    /\ yielded' = filter_passes(result')
    /\ pc' = "returned"
    /\ UNCHANGED << seen, config, actions, is_log_batch, visit_log, seen_before,
                    tombstones, errored, recorded, consumer_vars, codec_vars, pair_vars, engine_vars >>

Next ==
    \/ UpstreamStart
    \/ \E row \in Rows : UpstreamRow(row)
    \/ \E is_log \in BOOLEAN, eval_ok \in BOOLEAN : NextBatch(is_log, eval_ok)
    \/ NextErr

Spec == Init /\ [][Next]_vars

-----------------------------------------------------------------------------
(* The consumer of the returned iterator: next calls on                     *)
(* action_iter.map(closure).filter(..).  A call pulls upstream items, the   *)
(* closure running on each, until a result passes the filter or the         *)
(* upstream is exhausted.                                                    *)

\* Most upstream items pulled in one run.
MaxItems == 3

\* The rows of the batches of these runs: an Add, a Remove of the same file
\* and an Add whose deletion vector lacks pathOrInlineDv.
IterAdd    == AddRow("f", PartMap("1"), NoDv, MaxStats(9))
IterRemove == RemoveRow("f", PartMap("2"), NoDv)
IterBroken == AddRow("f", PartMap("1"), BrokenDv, NoStats)

\* The batches the upstream may yield.
IterBatches ==
    { << >>,
      << IterAdd >>,
      << IterRemove >>,
      << IterBroken >>,
      << IterAdd, IterAdd >>,
      << IterRemove, IterAdd >>,
      << IterAdd, IterRemove >>,
      << IterAdd, IterBroken >> }

\* What trace keeps of a result: whether it is an error, and whether its
\* selection vector holds a true.
Summary(res) ==
    [err |-> res.status = "err",
     any |-> /\ res.status = "ok"
             /\ \E i \in 1..Len(res.selection_vector) : res.selection_vector[i]]

InitIter ==
    /\ Init
    /\ transform = NoTransform
    /\ ~partition_filter.some

\* The consumer calls next on the iterator.
CallNext ==
    /\ call \in { "idle", "some" }
    /\ call' = "running"
    /\ pulls' = 0
    /\ UNCHANGED << scan_vars, trace, out, codec_vars, pair_vars, engine_vars >>

\* The item pulled has been mapped: it is counted, and the filter either
\* lets the result through, which ends the call, or has the call pull again.
Filtered ==
    /\ yielded' = filter_passes(result')
    /\ pulls' = pulls + 1
    /\ trace' = Append(trace, Summary(result'))
    /\ IF yielded'
         THEN call' = "some" /\ out' = Append(out, Len(trace'))
         ELSE call' = "running" /\ out' = out
    /\ pc' = "returned"
    /\ seen_before' = seen
    /\ tombstones' = tombstones \cup
           { RowKey(actions[i]) :
               i \in { j \in visit_log.checked : is_log_batch /\ IsRemove(actions[j]) } }
    /\ errored' = (errored \/ result.status = "err")
    /\ recorded' = recorded \cup
           { RowKey(actions[i]) : i \in { j \in visit_log.checked : is_log_batch } }

\* The running call pulls Ok((batch, is_log)) from the upstream: the map
\* closure runs process_scan_batch on it, then the filter.
PullBatch(batch, is_log, eval_ok) ==
    /\ call = "running"
    /\ Len(trace) < MaxItems
    /\ actions' = batch
    /\ is_log_batch' = is_log
    /\ LET scanner == [partition_filter |-> partition_filter,
                       data_skipping_filter |-> data_skipping_filter,
                       seen |-> seen]
       IN  \E r \in { process_scan_batch(scanner, batch, LogicalSchema, transform,
                                         is_log, eval_ok) } :
             /\ seen' = r.scanner.seen
             /\ result' = r.result
             /\ visit_log' = r.visit_log
    /\ Filtered
    /\ UNCHANGED << config, codec_vars, pair_vars, engine_vars >>

\* The running call pulls an Err from the upstream: action_res? returns it
\* from the closure, then the filter.
PullErr ==
    /\ call = "running"
    /\ Len(trace) < MaxItems
    /\ actions' = << >>
    /\ result' = [status |-> "err", err |-> "upstream"]
    /\ visit_log' = NoLog
    /\ Filtered
    /\ UNCHANGED << seen, config, is_log_batch, codec_vars, pair_vars, engine_vars >>

\* The running call finds the upstream exhausted and returns None.
PullNone ==
    /\ call = "running"
    /\ call' = "none"
    /\ UNCHANGED << scan_vars, pulls, trace, out, codec_vars, pair_vars, engine_vars >>

NextIter ==
    \/ CallNext
    \/ \E batch \in IterBatches, is_log \in BOOLEAN, eval_ok \in BOOLEAN :
         PullBatch(batch, is_log, eval_ok)
    \/ PullErr
    \/ PullNone

SpecIter == InitIter /\ [][NextIter]_vars

-----------------------------------------------------------------------------
(* Log replay over files that differ in path and deletion vector, under     *)
(* scans whose predicate reads the partition column alone.                  *)

\* Largest number of rows of one action batch of these runs.
MaxFileRows == 2

\* A deletion vector of another storage type.
OtherDv == [storageType |-> "p", pathOrInlineDv |-> "ab", offset |-> 1]

FileRows ==
    { AddRow("f", PartMap("1"), NoDv,    MaxStats(9)),  \* col-part = 1: kept
      AddRow("f", PartMap("2"), NoDv,    NoStats),      \* col-part = 2
      AddRow("f", NoMap,        SomeDv,  NoStats),      \* partition value absent
      AddRow("f", PartMap("1"), OtherDv, MaxStats(3)),  \* same path, other storage
                                                        \* type; max(value) <= 5
      AddRow("g", PartMap("1"), NoDv,    NoStats),      \* other path
      RemoveRow("f", PartMap("2"), NoDv),
      OtherRow }

FileScans ==
    { << NoTransform,     NoPredicate   >>,
      << TransformStd,    NoPredicate   >>,
      << TransformStd,    PartPredicate >>,
      << TransformStd,    ThePredicate  >>,
      << TransformStatic, PartPredicate >>,
      << TransformOob,    PartPredicate >> }

InitFiles == InitWith(FileScans)

\* The upstream reads one more of these rows into the batch it is producing.
FileRow(row) ==
    /\ pc = "upstream"
    /\ Len(actions) < MaxFileRows
    /\ actions' = Append(actions, row)
    /\ UNCHANGED << seen, config, pc, is_log_batch, result, yielded, visit_log,
                    seen_before, tombstones, errored, recorded, consumer_vars,
                    codec_vars, pair_vars, engine_vars >>

NextFiles ==
    \/ UpstreamStart
    \/ \E row \in FileRows : FileRow(row)
    \/ \E is_log \in BOOLEAN, eval_ok \in BOOLEAN : NextBatch(is_log, eval_ok)
    \/ NextErr

SpecFiles == InitFiles /\ [][NextFiles]_vars

-----------------------------------------------------------------------------
(* Two scans, each made by its own scan_action_iter call, pull from their   *)
(* own upstreams in any interleaving; the engine's evaluator succeeds.      *)

\* Most items the two scans pull together.
MaxPulls == 3

PairAdd     == AddRow("f", PartMap("1"), NoDv, MaxStats(9))   \* passes
PairSkipAdd == AddRow("f", PartMap("1"), NoDv, MaxStats(3))   \* skipped by scan 1
PairPartAdd == AddRow("f", PartMap("2"), NoDv, NoStats)       \* pruned by scan 1
PairRemove  == RemoveRow("f", PartMap("2"), NoDv)

\* The batches an upstream may yield.
PairBatches ==
    { << PairAdd >>,
      << PairSkipAdd >>,
      << PairPartAdd, PairAdd >>,
      << PairRemove, PairAdd >> }

InitPair ==
    /\ Init
    /\ transform = NoTransform
    /\ ~partition_filter.some

\* A pull in which the scanners of all scans share one seen-set.
PairPull_shared_seen(s, batch, is_log) ==
    /\ Len(pulled) < MaxPulls
    /\ LET shared == [scanners[s] EXCEPT
                        !.seen = UNION { scanners[t].seen : t \in ScanIds }]
       IN  \E r \in { process_scan_batch(shared, batch, LogicalSchema,
                                         PairScan(s)[1], is_log, TRUE) } :
             /\ scanners' = [scanners EXCEPT ![s] = r.scanner]
             /\ mapped' = Append(mapped, r.result)
    /\ pulled' = Append(pulled, [scan |-> s, batch |-> batch, is_log |-> is_log])
    /\ UNCHANGED << scan_vars, consumer_vars, codec_vars, engine_vars >>

\* The iterator of scan s pulls Ok((batch, is_log)) from its upstream: its
\* map closure runs process_scan_batch on the scanner it owns.
PairPull(s, batch, is_log) ==
    /\ Len(pulled) < MaxPulls
    /\ \E r \in { process_scan_batch(scanners[s], batch, LogicalSchema,
                                      PairScan(s)[1], is_log, TRUE) } :
         /\ scanners' = [scanners EXCEPT ![s] = r.scanner]
         /\ mapped' = Append(mapped, r.result)
    /\ pulled' = Append(pulled, [scan |-> s, batch |-> batch, is_log |-> is_log])
    /\ UNCHANGED << scan_vars, consumer_vars, codec_vars, engine_vars >>

NextPair ==
    \E s \in ScanIds, batch \in PairBatches, is_log \in BOOLEAN : PairPull(s, batch, is_log)

SpecPair == InitPair /\ [][NextPair]_vars

-----------------------------------------------------------------------------
(* Log replay over rows that are more or less than one file action: both   *)
(* paths present, deletion-vector fields without a storage type, a deletion *)
(* vector without offset or without pathOrInlineDv, partition values that   *)
(* do not parse.  The engine's evaluator succeeds.                          *)

\* Largest number of rows of one action batch of these runs.
MaxMixedRows == 2

\* A deletion vector without offset; pathOrInlineDv and offset given
\* without a storage type.
NoOffsetDv == [storageType |-> "u",  pathOrInlineDv |-> "ab", offset |-> -1]
StrayDv    == [storageType |-> None, pathOrInlineDv |-> "ab", offset |-> 1]

\* A row with add.path and remove.path both present.
BothRow ==
    [add_path |-> "f", add_pv |-> PartMap("1"), add_dv |-> NoDv, add_stats |-> NoStats,
     rm_path |-> "g", rm_pv |-> PartMap("x"), rm_dv |-> SomeDv]

MixedRows ==
    { BothRow,
      AddRow("f", PartMap("1"), NoOffsetDv, NoStats),
      AddRow("f", PartMap("1"), StrayDv,    NoStats),
      AddRow("g", PartMap("x"), NoDv,       NoStats),   \* value does not parse
      AddRow("g", PartMap("1"), BrokenDv,   NoStats),
      RemoveRow("f", PartMap("x"), NoDv),               \* value does not parse
      RemoveRow("g", NoMap,        StrayDv),
      RemoveRow("g", PartMap("1"), BrokenDv),
      OtherRow }

MixedScans ==
    { << NoTransform,  NoPredicate   >>,
      << TransformStd, PartPredicate >>,
      << TransformDup, NoPredicate   >>,
      << TransformOob, PartPredicate >> }

InitRows == InitWith(MixedScans)

\* The upstream reads one more of these rows into the batch it is producing.
MixedRow(row) ==
    /\ pc = "upstream"
    /\ Len(actions) < MaxMixedRows
    /\ actions' = Append(actions, row)
    /\ UNCHANGED << seen, config, pc, is_log_batch, result, yielded, visit_log,
                    seen_before, tombstones, errored, recorded, consumer_vars,
                    codec_vars, pair_vars, engine_vars >>

NextRows ==
    \/ UpstreamStart
    \/ \E row \in MixedRows : MixedRow(row)
    \/ \E is_log \in BOOLEAN : NextBatch(is_log, TRUE)
    \/ NextErr

SpecRows == InitRows /\ [][NextRows]_vars

-----------------------------------------------------------------------------
(* The visitor on its own: it is built as process_scan_batch builds it      *)
(* (lines 339-347) and the engine data's visit_rows hands visit a list of   *)
(* getters, which need not have the length the visitor asked for.           *)

\* Longest getter list handed to visit.
MaxGetters == 10

\* The seen-sets the scanner may hold when the visitor is built.
VisitSeen == { {}, { FileActionKey("f", None) } }
\* The transform specs it may be given.
VisitTransforms == { NoTransform, TransformStd }

\* process_scan_batch up to visit_rows_of: the visitor borrows the seen-set
\* and takes the selection vector of data skipping.
NewVisitor(batch, selection_vector, seen0, tr, is_log) ==
    /\ vis_pc \in { "new", "visited" }
    /\ vis' = [seen |-> seen0,
               selection_vector |-> selection_vector,
               logical_schema |-> LogicalSchema,
               transform |-> tr,
               partition_filter |-> NoPredicate,
               row_transform_exprs |-> << >>,
               is_log_batch |-> is_log,
               checked |-> {},
               failed |-> 0]
    /\ vis_actions' = batch
    /\ vis_pc' = "built"
    /\ vis_getters' = 0
    /\ vis_ret' = NotVisited
    /\ vis_before' = NoVisitor
    /\ UNCHANGED << scan_vars, consumer_vars, codec_vars, pair_vars, ffi_vars, sync_vars >>

\* The engine data calls visit with a list of that many getters.
Visit(getters) ==
    /\ vis_pc = "built"
    /\ \E r \in { visit(vis, vis_actions, getters) } :
         /\ vis' = r.v
         /\ vis_ret' = r.ret
    /\ vis_getters' = getters
    /\ vis_before' = vis
    /\ vis_pc' = "visited"
    /\ UNCHANGED << scan_vars, consumer_vars, codec_vars, pair_vars, ffi_vars, sync_vars, vis_actions >>

InitVisit ==
    /\ Init
    /\ transform = NoTransform
    /\ ~partition_filter.some

NextVisit ==
    \/ \E batch \in IterBatches, seen0 \in VisitSeen, tr \in VisitTransforms,
          is_log \in BOOLEAN :
         \E selection_vector \in [1..Len(batch) -> BOOLEAN] :
           NewVisitor(batch, selection_vector, seen0, tr, is_log)
    \/ \E getters \in 0..MaxGetters : Visit(getters)

SpecVisit == InitVisit /\ [][NextVisit]_vars

-----------------------------------------------------------------------------
(* read_result_next (ffi/src/engine_funcs.rs): the engine asks for the next *)
(* batch of a FileReadResultIterator and is called back with it.            *)

\* Most calls of read_result_next on one iterator.
MaxCalls == 4

\* Option<DeltaResult<Box<dyn EngineData>>>: what data.next() may give.
NextSome(d)    == [kind |-> "Some(Ok)",  data |-> d]
NextSomeErr(e) == [kind |-> "Some(Err)", data |-> e]
NextNone       == [kind |-> "None",      data |-> ""]
NextOutcomes ==
    { NextSome("x"), NextSome("y"), NextSomeErr("read failed"), NextNone }

\* read_result_next_impl that also hands the engine what an Err holds.
read_result_next_impl_visits_errors(next) ==
    IF next.kind = "None" THEN [visited |-> << >>, ret |-> Ok(FALSE)]
    ELSE [visited |-> << next.data >>, ret |-> Ok(TRUE)]

\* read_result_next_impl, given what iter.data.next() returned: the data
\* engine_visitor is invoked with (none or one) and the DeltaResult<bool>.
read_result_next_impl(next) ==
    IF next.kind = "Some(Err)" THEN [visited |-> << >>, ret |-> Err(next.data)]
    ELSE IF next.kind = "Some(Ok)" THEN [visited |-> << next.data >>, ret |-> Ok(TRUE)]
    ELSE [visited |-> << >>, ret |-> Ok(FALSE)]

\* One call of read_result_next: data.next() is called once and gives next.
\* A visit is recorded with the position of the item and its data.
ReadResultNext(next) ==
    /\ Len(rr_rets) < MaxCalls
    /\ rr_nexts' = Append(rr_nexts, next)
    /\ \E r \in { read_result_next_impl(next) } :
         /\ rr_visits' = rr_visits \o
                [k \in 1..Len(r.visited) |->
                   [item |-> Len(rr_nexts'), data |-> r.visited[k]]]
         /\ rr_rets' = Append(rr_rets, r.ret)
    /\ UNCHANGED << scan_vars, consumer_vars, codec_vars, pair_vars, visitor_vars, sync_vars >>

InitRead ==
    /\ Init
    /\ transform = NoTransform
    /\ ~partition_filter.some

NextRead == \E next \in NextOutcomes : ReadResultNext(next)

SpecRead == InitRead /\ [][NextRead]_vars

-----------------------------------------------------------------------------
(* read_files of the sync engine (kernel/src/engine/sync/mod.rs): the files *)
(* of a list are read one after the other through a flattening iterator.    *)

\* Most files in the list given to read_files.
MaxFiles == 2

\* A file of the list, by what happens when it is its turn: whether
\* location.to_file_path() succeeds, whether File::open succeeds, whether
\* try_create_from_file returns a reader, and the items that reader yields.
NotLocalFile   == [local |-> FALSE, opens |-> FALSE, creates |-> FALSE, items |-> << >>]
UnopenableFile == [local |-> TRUE,  opens |-> FALSE, creates |-> FALSE, items |-> << >>]
UnreadableFile == [local |-> TRUE,  opens |-> TRUE,  creates |-> FALSE, items |-> << >>]
ReadableFile(items) ==
    [local |-> TRUE, opens |-> TRUE, creates |-> TRUE, items |-> items]
SyncFiles ==
    { NotLocalFile, UnopenableFile, UnreadableFile,
      ReadableFile(<< >>), ReadableFile(<< "batch" >>),
      ReadableFile(<< "batch", "batch" >>), ReadableFile(<< "error", "batch" >>) }
FileLists == UNION { [1..n -> SyncFiles] : n \in 0..MaxFiles }

\* read_files up to the point where it returns: an empty list returns an
\* empty iterator at once; otherwise the schema is converted, and a failure
\* of the conversion is returned.
read_files(files, schema_ok) ==
    IF Len(files) = 0 THEN [ok |-> TRUE, converted |-> FALSE]
    ELSE [ok |-> schema_ok, converted |-> TRUE]

\* The closure given to map, for one file: the reader, or the error; opened
\* tells whether File::open was called.
open_and_create(file) ==
    IF ~file.local
    THEN [ok |-> FALSE, err |-> "can only read local files", opened |-> FALSE]
    ELSE IF ~file.opens
    THEN [ok |-> FALSE, err |-> "open failed", opened |-> TRUE]
    ELSE IF ~file.creates
    THEN [ok |-> FALSE, err |-> "create failed", opened |-> TRUE]
    ELSE [ok |-> TRUE, err |-> "", opened |-> TRUE]

\* What the iterator yields: the item number pos of the reader of file
\* number file, or (pos = 0) the error of the closure for that file.  The
\* last map unpacks both layers of DeltaResult into one.
ReaderItem(file, pos, what) ==
    [none |-> FALSE, file |-> file, pos |-> pos, ok |-> what = "batch",
     err |-> IF what = "batch" THEN "" ELSE "read failed"]
ClosureError(file, e) ==
    [none |-> FALSE, file |-> file, pos |-> 0, ok |-> FALSE, err |-> e]
NoItem == [none |-> TRUE, file |-> 0, pos |-> 0, ok |-> FALSE, err |-> ""]

\* The flattening iterator that gives up at the first file that fails.
RECURSIVE flatten_ok_next_stops_at_error(_, _, _)
flatten_ok_next_stops_at_error(files, st, opens) ==
    IF st.inner # 0 /\ st.pos < Len(files[st.inner].items)
    THEN [st |-> [st EXCEPT !.pos = @ + 1], opens |-> opens,
          item |-> ReaderItem(st.inner, st.pos + 1,
                              files[st.inner].items[st.pos + 1])]
    ELSE IF st.idx < Len(files)
    THEN \* the closure runs for the next file of the list
         LET i == st.idx + 1
             r == open_and_create(files[i])
             opens2 == IF r.opened THEN Append(opens, i) ELSE opens
         IN  IF r.ok
             THEN flatten_ok_next_stops_at_error(files,
                      [idx |-> i, inner |-> i, pos |-> 0], opens2)
             ELSE [st |-> [idx |-> Len(files), inner |-> 0, pos |-> 0],
                   opens |-> opens2, item |-> ClosureError(i, r.err)]
    ELSE [st |-> [st EXCEPT !.inner = 0, !.pos = 0], opens |-> opens,
          item |-> NoItem]

\* next() of map(closure).flatten_ok().map(unpack): the reader in hand is
\* asked first; when it has no more items the closure runs for the next
\* file, whose error is yielded and whose reader becomes the one in hand.
\* opens collects the files File::open was called for during the call.
RECURSIVE flatten_ok_next(_, _, _)
flatten_ok_next(files, st, opens) ==
    IF st.inner # 0 /\ st.pos < Len(files[st.inner].items)
    THEN [st |-> [st EXCEPT !.pos = @ + 1], opens |-> opens,
          item |-> ReaderItem(st.inner, st.pos + 1,
                              files[st.inner].items[st.pos + 1])]
    ELSE IF st.idx < Len(files)
    THEN \* the closure runs for the next file of the list
         LET i == st.idx + 1
             r == open_and_create(files[i])
             opens2 == IF r.opened THEN Append(opens, i) ELSE opens
         IN  IF r.ok
             THEN flatten_ok_next(files, [idx |-> i, inner |-> i, pos |-> 0],
                                  opens2)
             ELSE [st |-> [idx |-> i, inner |-> 0, pos |-> 0],
                   opens |-> opens2, item |-> ClosureError(i, r.err)]
    ELSE [st |-> [st EXCEPT !.inner = 0, !.pos = 0], opens |-> opens,
          item |-> NoItem]

\* A handler calls read_files with a list of files and a schema.
ReadFiles(files, schema_ok) ==
    /\ rf_pc = "new"
    /\ rf_files' = files
    /\ rf_schema_ok' = schema_ok
    /\ \E r \in { read_files(files, schema_ok) } :
         /\ rf_converted' = r.converted
         /\ rf_pc' = IF r.ok THEN "iter" ELSE "failed"
    /\ UNCHANGED << scan_vars, consumer_vars, codec_vars, pair_vars,
                    visitor_vars, ffi_vars, rf_st, rf_out, rf_opened >>

\* The caller asks the returned iterator for its next item.  The end of the
\* iterator is recorded once; asking again would give None again.
IterNext ==
    /\ rf_pc = "iter"
    /\ \E r \in { flatten_ok_next(rf_files, rf_st, << >>) } :
         /\ rf_st' = r.st
         /\ rf_opened' = rf_opened \o
                [k \in 1..Len(r.opens) |->
                   [file |-> r.opens[k], at |-> Len(rf_out)]]
         /\ rf_out' = IF r.item.none THEN rf_out ELSE Append(rf_out, r.item)
         /\ rf_pc' = IF r.item.none THEN "ended" ELSE "iter"
    /\ UNCHANGED << scan_vars, consumer_vars, codec_vars, pair_vars,
                    visitor_vars, ffi_vars, rf_files, rf_schema_ok, rf_converted >>

InitSync ==
    /\ Init
    /\ transform = NoTransform
    /\ ~partition_filter.some

NextSync ==
    \/ \E files \in FileLists, schema_ok \in BOOLEAN : ReadFiles(files, schema_ok)
    \/ IterNext

SpecSync == InitSync /\ [][NextSync]_vars

-----------------------------------------------------------------------------
(* Column names: a name is collected field by field and printed, and the    *)
(* print parsed back; or a string is typed and parsed.                      *)

\* The size of a column name: its fields and the characters in them.
RECURSIVE NameSize(_)
NameSize(path) ==
    IF path = << >> THEN 0 ELSE 1 + Len(Head(path)) + NameSize(Tail(path))

InitCodec ==
    /\ Init
    /\ transform = NoTransform
    /\ ~partition_filter.some

\* ColumnName::new / FromIterator: the iterator yields one more (empty)
\* field name.
PushField ==
    /\ cn_pc \in { "start", "name" }
    /\ NameSize(cn_path) < MaxNameSize
    /\ cn_path' = Append(cn_path, << >>)
    /\ cn_pc' = "name"
    /\ UNCHANGED << scan_vars, consumer_vars, pair_vars, engine_vars, cn_text, cn_result, cn_list >>

\* ... and one more character of the field name being yielded.
PushChar(c) ==
    /\ cn_pc = "name"
    /\ NameSize(cn_path) < MaxNameSize
    /\ cn_path' = [cn_path EXCEPT ![Len(cn_path)] = Append(@, c)]
    /\ UNCHANGED << scan_vars, consumer_vars, pair_vars, engine_vars, cn_pc, cn_text, cn_result, cn_list >>

\* to_string() on the column name collected.
Display ==
    /\ cn_pc \in { "start", "name" }
    /\ cn_text' = to_string(cn_path)
    /\ cn_pc' = "printed"
    /\ UNCHANGED << scan_vars, consumer_vars, pair_vars, engine_vars, cn_path, cn_result, cn_list >>

\* One more character of a string someone wrote.
TypeChar(c) ==
    /\ cn_pc \in { "start", "text" }
    /\ Len(cn_text) < MaxTextLen
    /\ cn_text' = Append(cn_text, c)
    /\ cn_pc' = "text"
    /\ UNCHANGED << scan_vars, consumer_vars, pair_vars, engine_vars, cn_path, cn_result, cn_list >>

\* str::parse::<ColumnName>() on the string printed or typed.
FromStr ==
    /\ cn_pc \in { "start", "text", "printed" }
    /\ cn_result' = from_str(cn_text)
    /\ cn_pc' = (IF cn_pc = "printed" THEN "reparsed" ELSE "parsed")
    /\ UNCHANGED << scan_vars, consumer_vars, pair_vars, engine_vars, cn_path, cn_text, cn_list >>

\* ColumnName::parse_column_name_list on the string typed.
ParseList ==
    /\ cn_pc \in { "start", "text" }
    /\ cn_list' = parse_column_name_list(cn_text)
    /\ cn_pc' = "listed"
    /\ UNCHANGED << scan_vars, consumer_vars, pair_vars, engine_vars, cn_path, cn_text, cn_result >>

NextCodec ==
    \/ PushField
    \/ \E c \in Chars : PushChar(c)
    \/ Display
    \/ \E c \in Chars : TypeChar(c)
    \/ FromStr
    \/ ParseList

SpecCodec == InitCodec /\ [][NextCodec]_vars

-----------------------------------------------------------------------------
(* Properties of log replay                                                 *)

\* The current item was a batch (not an upstream error) and has been processed.
ItemIsBatch == pc = "returned" /\ ~(result.status = "err" /\ result.err = "upstream")
\* ... and process_scan_batch returned Ok.
BatchOk     == pc = "returned" /\ result.status = "ok"

RowIdx     == 1..Len(actions)
Sel(i)     == result.selection_vector[i]
Key(i)     == RowKey(actions[i])
\* Row i reached the dedup step (check_and_record_seen ran for it).
Reached(i) == i \in visit_log.checked
\* No earlier row of the batch with the same key reached the dedup step.
FirstOfKey(i) == \A j \in 1..(i - 1) : Reached(j) => Key(j) # Key(i)

\* C1 -- Tombstone across batches: an Add whose key was tombstoned by a
\* Remove that reached the dedup step in an earlier log batch is never
\* selected, in a log batch or in a checkpoint batch, and no Remove row is
\* ever selected.
C1_TombstoneAcrossBatches ==
    BatchOk => \A i \in RowIdx :
        /\ (IsAdd(actions[i]) /\ Key(i) \in tombstones) => ~Sel(i)
        /\ IsRemove(actions[i]) => ~Sel(i)

\* An Add that passed skipping and pruning meets the tombstone of an
\* earlier log batch.
C1_Witness ==
    /\ BatchOk
    /\ \E i \in RowIdx : IsAdd(actions[i]) /\ Reached(i) /\ Key(i) \in tombstones
    /\ \E i \in RowIdx : Sel(i)

\* C2 -- First-seen wins inside a log batch: of two rows with the same key
\* that both reach the dedup step the later one is never selected, and the
\* earlier one is selected only if it is an Add whose key was not seen
\* before the batch; an Add that is the first of its (unseen) key stays
\* selected.
C2_FirstSeenWins ==
    (BatchOk /\ is_log_batch) =>
        /\ \A i \in RowIdx, j \in RowIdx :
             (i < j /\ Reached(i) /\ Reached(j) /\ Key(i) = Key(j)) =>
                 /\ ~Sel(j)
                 /\ Sel(i) => (IsAdd(actions[i]) /\ Key(i) \notin seen_before)
        /\ \A i \in RowIdx :
             (Reached(i) /\ IsAdd(actions[i]) /\ Key(i) \notin seen_before
                /\ FirstOfKey(i)) => Sel(i)

\* A Remove precedes an Add of the same key, next to an Add of another key.
C2_Witness ==
    /\ BatchOk /\ is_log_batch
    /\ \E i \in RowIdx, j \in RowIdx, k \in RowIdx :
         /\ i < j /\ Reached(i) /\ Reached(j) /\ Key(i) = Key(j)
         /\ IsRemove(actions[i]) /\ IsAdd(actions[j])
         /\ ~Sel(i) /\ ~Sel(j)
         /\ IsAdd(actions[k]) /\ Key(k) # Key(i) /\ Sel(k)

\* Two Adds of one batch with the same, not previously seen key, both
\* reaching the dedup step, the first of them not preceded by another Add of
\* that key.
TwoAdds(i, j) ==
    /\ i < j /\ Reached(i) /\ Reached(j)
    /\ IsAdd(actions[i]) /\ IsAdd(actions[j])
    /\ Key(i) = Key(j) /\ Key(i) \notin seen_before
    /\ \A h \in 1..(i - 1) : (Reached(h) /\ Key(h) = Key(i)) => IsRemove(actions[h])
RemoveBefore(i) ==
    \E h \in 1..(i - 1) : Reached(h) /\ IsRemove(actions[h]) /\ Key(h) = Key(i)
RemoveAfter(j) ==
    \E h \in (j + 1)..Len(actions) : IsRemove(actions[h]) /\ Key(h) = Key(j)

\* What C3 says of one batch, log or checkpoint: exactly one of the two
\* Adds is selected (the first one when a Remove follows both in a log
\* batch), unless a Remove precedes both, and then neither is.
DedupSingleBatch(i, j) ==
    IF RemoveBefore(i)
      THEN ~Sel(i) /\ ~Sel(j)
      ELSE /\ Sel(i) # Sel(j)
           /\ (is_log_batch /\ RemoveAfter(j)) => Sel(i)

\* C3 as stated -- in any single batch, log or checkpoint, exactly one of
\* two same-key Adds is selected.
C3_Original ==
    BatchOk => \A i \in RowIdx, j \in RowIdx : TwoAdds(i, j) => DedupSingleBatch(i, j)

\* C3 amended -- the statement holds for log batches; in a checkpoint batch
\* nothing is recorded, so both Adds are selected.
C3_DedupSingleBatch ==
    BatchOk => \A i \in RowIdx, j \in RowIdx :
        TwoAdds(i, j) =>
            IF is_log_batch
              THEN DedupSingleBatch(i, j) /\ (~RemoveBefore(i) => Sel(i))
              ELSE Sel(i) /\ Sel(j)

\* A log batch A1, A2, R with A1 selected.
C3_Witness ==
    /\ BatchOk /\ is_log_batch
    /\ \E i \in RowIdx, j \in RowIdx :
         TwoAdds(i, j) /\ RemoveAfter(j) /\ Sel(i) /\ ~Sel(j)

\* C4 as stated -- an Add followed, later in the same log batch, by a Remove
\* of the same (unseen) key: both rows end up non-selected.
C4_Original ==
    (BatchOk /\ is_log_batch) => \A i \in RowIdx, j \in RowIdx :
        (i < j /\ Reached(i) /\ Reached(j) /\ IsAdd(actions[i]) /\ IsRemove(actions[j])
           /\ Key(i) = Key(j) /\ Key(i) \notin seen_before /\ FirstOfKey(i))
        => (~Sel(i) /\ ~Sel(j))

\* C4 amended -- the later Remove does not suppress the Add: the Add stays
\* selected and only the Remove is deselected; both rows are deselected when
\* the Remove comes first.
C4_AddThenRemove ==
    (BatchOk /\ is_log_batch) => \A i \in RowIdx, j \in RowIdx :
        (i < j /\ Reached(i) /\ Reached(j) /\ Key(i) = Key(j)
           /\ Key(i) \notin seen_before /\ FirstOfKey(i)) =>
            /\ (IsAdd(actions[i]) /\ IsRemove(actions[j])) => (Sel(i) /\ ~Sel(j))
            /\ (IsRemove(actions[i]) /\ IsAdd(actions[j])) => (~Sel(i) /\ ~Sel(j))

\* A log batch with an Add and a later Remove of the same unseen key.
C4_Witness ==
    /\ BatchOk /\ is_log_batch
    /\ \E i \in RowIdx, j \in RowIdx :
         /\ i < j /\ Reached(i) /\ Reached(j) /\ Key(i) = Key(j)
         /\ IsAdd(actions[i]) /\ IsRemove(actions[j])
         /\ Key(i) \notin seen_before /\ FirstOfKey(i)
         /\ Sel(i) /\ ~Sel(j)

\* C5 -- Checkpoint non-shadowing: a checkpoint batch, processed with or
\* without error, leaves the seen-set as it was; an Add of a checkpoint
\* batch that reaches the dedup step is selected exactly when its key is
\* not in the seen-set, however often the key occurs in checkpoint rows; an
\* Add whose key an earlier log batch tombstoned is not selected.
C5_CheckpointNonShadowing ==
    /\ (ItemIsBatch /\ ~is_log_batch) => seen = seen_before
    /\ (BatchOk /\ ~is_log_batch) => \A i \in RowIdx :
         /\ Reached(i) => (IsAdd(actions[i]) /\ (Sel(i) <=> Key(i) \notin seen_before))
         /\ (IsAdd(actions[i]) /\ Key(i) \in tombstones) => ~Sel(i)

\* A checkpoint batch in which the same unseen Add is selected twice and a
\* tombstoned Add is not selected.
C5_Witness ==
    /\ BatchOk /\ ~is_log_batch
    /\ \E i \in RowIdx, j \in RowIdx :
         i < j /\ IsAdd(actions[i]) /\ Key(i) = Key(j) /\ Sel(i) /\ Sel(j)
    /\ \E i \in RowIdx :
         IsAdd(actions[i]) /\ Reached(i) /\ Key(i) \in tombstones /\ ~Sel(i)

\* Row i passes data skipping.
PassSkip(i) ==
    ~data_skipping_filter.some \/ DataSkippingApply(data_skipping_filter, actions)[i]
\* The row is an Add that partition pruning drops.
PartitionPruned(row) ==
    /\ IsAdd(row) /\ transform.some
    /\ LET ctx == [logical_schema |-> LogicalSchema, partition_filter |-> partition_filter]
           parsed == parse_partition_values(ctx, transform.elems, row.add_pv)
       IN  parsed.ok /\ is_file_partition_pruned(ctx, parsed.vals)
\* The row is a file action the visitor looks at in this kind of batch.
IsFileAction(row) == IsAdd(row) \/ (is_log_batch /\ IsRemove(row))
\* The seen-set when row i is examined: what was seen before the batch and,
\* in a log batch, the keys of the earlier rows that got to the dedup step.
SeenAt(i) ==
    seen_before \cup
      (IF is_log_batch
         THEN { Key(j) : j \in { h \in 1..(i - 1) :
                  PassSkip(h) /\ IsFileAction(actions[h]) /\ ~PartitionPruned(actions[h]) } }
         ELSE {})

\* C6 -- Skipping and pruning apply to Adds only: in every successfully
\* processed log batch, under every scan predicate, each Remove row reaches
\* the dedup step whatever its partition values, its key is in the seen-set
\* afterwards, and no Add of that key below it is selected: neither later in
\* the batch nor (by its tombstone) in a later batch.
C6_RemovesAlwaysReachDedup ==
    /\ (BatchOk /\ is_log_batch) => \A i \in RowIdx :
         IsRemove(actions[i]) =>
             /\ Reached(i)
             /\ Key(i) \in seen
             /\ \A j \in (i + 1)..Len(actions) :
                  (IsAdd(actions[j]) /\ Key(j) = Key(i)) => ~Sel(j)
    /\ BatchOk => \A j \in RowIdx : Sel(j) => Key(j) \notin tombstones

\* Under a predicate and a partition transform, a Remove whose partition
\* value fails the predicate sits above an Add that passes skipping and
\* pruning.
C6_Witness ==
    /\ BatchOk /\ is_log_batch /\ data_skipping_filter.some /\ transform.some
    /\ \E i \in RowIdx, j \in RowIdx :
         /\ i < j /\ IsRemove(actions[i]) /\ IsAdd(actions[j]) /\ Key(i) = Key(j)
         /\ eval_sql_where(partition_filter,
                           [n \in {"col-part"} |->
                              ParsePartitionScalar(actions[i].rm_pv["col-part"],
                                                   "integer").scalar]) = "false"
         /\ PassSkip(j) /\ ~PartitionPruned(actions[j]) /\ Key(i) \notin seen_before
         /\ ~Sel(j)

SelectedKeys  == { Key(i) : i \in { h \in RowIdx : Sel(h) } }
SkipPassKeys  == { Key(i) : i \in { h \in RowIdx : IsFileAction(actions[h]) /\ PassSkip(h) } }
NotYetSeenKeys == { Key(i) : i \in { h \in RowIdx :
                        IsFileAction(actions[h]) /\ Key(h) \notin seen_before } }
PruneSurvivorKeys == { Key(i) : i \in { h \in RowIdx :
                        IsAdd(actions[h]) /\ ~PartitionPruned(actions[h]) } }

\* C7 as stated -- the keys of the selected rows of a batch are the
\* intersection of the keys that pass skipping, the keys not yet seen and
\* the keys of the Adds that survive pruning.
C7_Original ==
    BatchOk => SelectedKeys = (SkipPassKeys \cap NotYetSeenKeys \cap PruneSurvivorKeys)

\* C7 amended -- row by row: a row is selected exactly when it passes data
\* skipping, is an Add that survives partition pruning, and its key is not
\* in the seen-set at the moment the row is examined.
C7_SkippingAndDedup ==
    BatchOk => \A i \in RowIdx :
        Sel(i) <=> /\ PassSkip(i)
                   /\ IsAdd(actions[i])
                   /\ ~PartitionPruned(actions[i])
                   /\ Key(i) \notin SeenAt(i)

\* A batch under a predicate and a partition transform with a skipped, a
\* pruned, an already seen and a selected row among its Adds.
C7_Witness ==
    /\ BatchOk /\ data_skipping_filter.some /\ transform.some
    /\ \E i \in RowIdx : IsAdd(actions[i]) /\ ~PassSkip(i)
    /\ \E i \in RowIdx : PassSkip(i) /\ PartitionPruned(actions[i])
    /\ \E i \in RowIdx : Sel(i)

\* Row i is the row that put its key into the seen-set.
KeyAddedBy(i) ==
    /\ is_log_batch /\ Reached(i) /\ FirstOfKey(i)
    /\ Key(i) \in seen /\ Key(i) \notin seen_before

\* C8 -- Seen-set insertion is atomic per row: whenever is_valid_add returns
\* an error for a row, that row has not added its key to the seen-set.
C8_InsertAfterFallibleWork ==
    (pc = "returned" /\ visit_log.failed # 0) => ~KeyAddedBy(visit_log.failed)

\* C9 -- A failing batch does not advance the scanner: whenever
\* process_scan_batch returns an error, the seen-set is what it was before.
C9_FailingBatchKeepsSeen ==
    (ItemIsBatch /\ result.status = "err") => seen = seen_before

\* The row holds something is_valid_add fails on: a deletion vector without
\* pathOrInlineDv, or, for an Add under a transform, a partition value that
\* cannot be parsed or a transform that cannot be built.
RowCanFail(row) ==
    LET dv  == IF IsAdd(row) THEN row.add_dv ELSE row.rm_dv
        ctx == [logical_schema |-> LogicalSchema, partition_filter |-> partition_filter]
        parsed == parse_partition_values(ctx, transform.elems, row.add_pv)
    IN  \/ dv.storageType # None /\ dv.pathOrInlineDv = None
        \/ /\ IsAdd(row) /\ transform.some
           /\ \/ ~parsed.ok
              \/ ~get_transform_expr(transform.elems, parsed.vals).ok

\* C10 -- Errors do not poison the iterator: an upstream Err item is yielded
\* as that error and leaves the seen-set alone; a batch pulled after an
\* earlier error is processed as usual: it fails only for a cause of its
\* own (one of its rows, or the evaluator), and when it succeeds it is
\* yielded iff a row is selected, the rows being selected as in C7.
C10_ErrorsDoNotPoison ==
    /\ (pc = "returned" /\ result.status = "err" /\ result.err = "upstream") =>
           (yielded /\ seen = seen_before)
    /\ (errored /\ ItemIsBatch /\ result.status = "err") =>
           IF visit_log.failed # 0
             THEN RowCanFail(actions[visit_log.failed])
             ELSE result.err = "EngineError: evaluate"
    /\ (errored /\ BatchOk) =>
           /\ yielded <=> \E i \in RowIdx : Sel(i)
           /\ \A i \in RowIdx :
                Sel(i) <=> /\ PassSkip(i) /\ IsAdd(actions[i])
                           /\ ~PartitionPruned(actions[i])
                           /\ Key(i) \notin SeenAt(i)

\* After an error, a batch is processed and yielded with a selected row.
C10_Witness ==
    errored /\ BatchOk /\ yielded /\ \E i \in RowIdx : Sel(i)

\* The rows selected in the result, and the per-row transform list.
Selected == { i \in RowIdx : Sel(i) }
Transforms == result.row_transform_exprs
MaxOf(S) == CHOOSE m \in S : \A n \in S : n <= m

\* The struct the transform spec prescribes for an Add row: a literal of the
\* scalar parsed from the row's raw partition value (looked up under the
\* field's physical name, null when absent) for a Partition element, the
\* source expression for a Static element, in the order of the spec.
ExpectedTransform(row) ==
    [j \in 1..Len(transform.elems) |->
       IF transform.elems[j].kind = "Partition"
         THEN LET field == LogicalSchema[transform.elems[j].idx + 1]
                  raw   == IF field.physical \in DOMAIN row.add_pv
                             THEN row.add_pv[field.physical] ELSE None
              IN  [tag |-> "literal", name |-> "",
                   scalar |-> ParsePartitionScalar(raw, field.type).scalar]
         ELSE [tag |-> "column", name |-> transform.elems[j].expr,
               scalar |-> NullScalar("")]]

\* C13 -- Shape and alignment of a returned tuple: the selection vector has
\* one bit per row of the batch; the scan rows are the add transform over
\* every row of the unmodified batch, selected or not, in row order; the
\* transform list is no longer than the batch and entry i, when present,
\* belongs to row i: that row is selected and the entry is the struct built
\* from that row's partition values.
C13_TupleAligned ==
    BatchOk =>
        /\ Len(result.selection_vector) = Len(actions)
        /\ Len(result.scan_rows) = Len(actions)
        /\ \A i \in RowIdx : result.scan_rows[i].path = actions[i].add_path
        /\ Len(Transforms) <= Len(actions)
        /\ \A i \in 1..Len(Transforms) :
             Transforms[i].some =>
                 /\ Sel(i) /\ IsAdd(actions[i])
                 /\ Transforms[i].struct = ExpectedTransform(actions[i])

\* Under a predicate and a partition transform: a batch with a row that is
\* not an Add, or a skipped Add, ahead of two selected Adds whose partition
\* values differ.
C13_Witness ==
    /\ BatchOk /\ transform.some /\ Len(actions) = MaxRows
    /\ \E i \in RowIdx, j \in RowIdx, k \in RowIdx :
         /\ i < j /\ j < k /\ ~Sel(i) /\ Sel(j) /\ Sel(k)
         /\ actions[j].add_pv # actions[k].add_pv
         /\ Transforms[j].some /\ Transforms[k].some
         /\ Transforms[j].struct # Transforms[k].struct

\* C14 -- Shape of the per-row transform list: empty when no transform spec
\* is configured; otherwise its length is 0 when no row is selected and the
\* position of the last selected row when one is, never more than the row
\* count, and below that length entry i is present exactly when row i is
\* selected.
C14_TransformListShape ==
    BatchOk =>
        IF ~transform.some
          THEN Transforms = << >>
          ELSE /\ Len(Transforms) = (IF Selected = {} THEN 0 ELSE MaxOf(Selected))
               /\ Len(Transforms) <= Len(actions)
               /\ \A i \in 1..Len(Transforms) : Transforms[i].some <=> Sel(i)

\* Under a transform spec: a metadata row, then a selected Add, then a row
\* that is not selected, so the list is shorter than the batch and starts
\* with an absent entry.
C14_Witness ==
    /\ BatchOk /\ transform.some /\ Len(actions) = 3
    /\ actions[1] = OtherRow /\ Sel(2) /\ ~Sel(3)
    /\ Len(Transforms) = 2 /\ ~Transforms[1].some /\ Transforms[2].some

\* The transform spec has one element per field of the logical schema.
OnePerLogicalField == Len(transform.elems) = Len(LogicalSchema)

\* C15 -- Transform alignment: every entry present for a selected row is a
\* struct with one slot per element of the transform spec (hence one per
\* field of the logical schema, the spec having one element per field);
\* slot j is the literal of the scalar parsed from that row's partition
\* value when element j is Partition, and the element's source expression
\* when it is Static.
C15_TransformAlignment ==
    BatchOk => \A i \in 1..Len(Transforms) :
        (Sel(i) /\ Transforms[i].some) =>
            LET s == Transforms[i].struct
            IN  /\ Len(s) = Len(transform.elems)
                /\ OnePerLogicalField => Len(s) = Len(LogicalSchema)
                /\ \A j \in 1..Len(s) :
                     IF transform.elems[j].kind = "Partition"
                       THEN /\ s[j].tag = "literal"
                            /\ s[j].scalar = ExpectedTransform(actions[i])[j].scalar
                       ELSE /\ s[j].tag = "column"
                            /\ s[j].name = transform.elems[j].expr

\* Under the transform [Static(value), Partition(part)]: a selected Add whose
\* partition value 1 became the literal 1, next to a selected Add without
\* the partition value, whose slot is the null literal.
C15_Witness ==
    /\ BatchOk /\ transform = TransformStd /\ OnePerLogicalField
    /\ \E i \in RowIdx, k \in RowIdx :
         /\ Sel(i) /\ Transforms[i].some
         /\ Transforms[i].struct = << Column("value"), Literal(IntScalar(1)) >>
         /\ Sel(k) /\ Transforms[k].some
         /\ Transforms[k].struct = << Column("value"), Literal(NullScalar("integer")) >>

\* The two components of a file action's identity, read off the row.
PathOf(row) == IF IsAdd(row) THEN row.add_path ELSE row.rm_path
DvOf(row)   == IF IsAdd(row) THEN row.add_dv ELSE row.rm_dv
DvIdOf(row) ==
    IF DvOf(row).storageType = None THEN None
    ELSE unique_id_from_parts(DvOf(row).storageType, DvOf(row).pathOrInlineDv,
                              DvOf(row).offset)
SameFile(a, b) == PathOf(a) = PathOf(b) /\ DvIdOf(a) = DvIdOf(b)
\* The file of the row is known when row i is examined: recorded before the
\* batch or, in a log batch, by an earlier row that reached the dedup step.
KnownAt(i) ==
    \/ \E k \in seen_before :
         k.path = PathOf(actions[i]) /\ k.dv_unique_id = DvIdOf(actions[i])
    \/ /\ is_log_batch
       /\ \E h \in 1..(i - 1) : Reached(h) /\ SameFile(actions[h], actions[i])

\* C22 -- File identity is the pair (path, dv_unique_id): an Add that
\* reaches the dedup step is selected exactly when no file action equal to
\* it in both components is known, so of two rows equal in both the later
\* one is not selected, and a row differing from every known one in the path
\* or in the deletion-vector identity is; an absent deletion vector differs
\* from a present one, and deletion vectors of different storage types
\* differ.
C22_FileIdentity ==
    BatchOk =>
        /\ \A j \in RowIdx :
             (Reached(j) /\ IsAdd(actions[j])) => (Sel(j) <=> ~KnownAt(j))
        /\ \A i \in RowIdx, j \in RowIdx :
             (i < j /\ is_log_batch /\ Reached(i) /\ Reached(j)
                /\ SameFile(actions[i], actions[j])) => ~Sel(j)
        /\ \A i \in RowIdx, j \in RowIdx :
             (IsFileAction(actions[i]) /\ IsFileAction(actions[j])
                /\ DvOf(actions[i]).storageType # DvOf(actions[j]).storageType)
             => ~SameFile(actions[i], actions[j])

\* After the Add of a path without deletion vector was recorded, a log
\* batch holds two Adds of that path with deletion vectors of different
\* storage types: both are selected.
C22_Witness ==
    /\ BatchOk /\ is_log_batch /\ Len(actions) = 2
    /\ IsAdd(actions[1]) /\ IsAdd(actions[2])
    /\ PathOf(actions[1]) = PathOf(actions[2])
    /\ FileActionKey(PathOf(actions[1]), None) \in seen_before
    /\ actions[1].add_dv = SomeDv /\ actions[2].add_dv = OtherDv
    /\ Sel(1) /\ Sel(2)

\* The Partition elements of the transform spec, the fields they name and
\* the row's partition values: for each such field, under its physical
\* name, the scalar parsed from the raw value (null when the row has none).
PartitionElemsOf(t) == { j \in 1..Len(t.elems) : t.elems[j].kind = "Partition" }
PartitionFieldsOf(t) == { LogicalSchema[t.elems[j].idx + 1] : j \in PartitionElemsOf(t) }
PartitionEnvOf(t, row) ==
    [n \in { f.physical : f \in PartitionFieldsOf(t) } |->
       LET f == CHOOSE f \in PartitionFieldsOf(t) : f.physical = n
       IN  ParsePartitionScalar(IF n \in DOMAIN row.add_pv THEN row.add_pv[n] ELSE None,
                                f.type).scalar]
PartitionElems    == PartitionElemsOf(transform)
PartitionFields   == PartitionFieldsOf(transform)
PartitionEnv(row) == PartitionEnvOf(transform, row)
\* The value of the partition filter over them: "true", "false" or "null".
FilterValue(row) == eval_sql_where(partition_filter, PartitionEnv(row))
\* Row i is an Add that passed data skipping and never got to the dedup
\* step: partition pruning dropped it.
DroppedByPruning(i) == PassSkip(i) /\ IsAdd(actions[i]) /\ ~Reached(i)
\* Row i is not the row that recorded its key.
NotRecordedBy(i) ==
    Key(i) \in seen =>
        \/ Key(i) \in seen_before
        \/ \E h \in RowIdx : h # i /\ Reached(h) /\ Key(h) = Key(i)

\* C23 -- Partition pruning is three-valued and conservative: an Add that
\* passed data skipping is dropped by pruning exactly when a partition
\* filter is configured, the transform spec has a Partition element and the
\* filter is definitely false over the row's parsed partition values; when
\* the filter is true or unknown, when there is no filter and when the spec
\* has no Partition element the Add goes on to the dedup step.  A pruned Add
\* is not selected and does not record its key.
C23_PruningConservative ==
    BatchOk => \A i \in RowIdx :
        (PassSkip(i) /\ IsAdd(actions[i])) =>
            /\ DroppedByPruning(i) <=>
                  /\ transform.some /\ partition_filter.some
                  /\ PartitionElems # {}
                  /\ FilterValue(actions[i]) = "false"
            /\ DroppedByPruning(i) => (~Sel(i) /\ NotRecordedBy(i))

\* Under the filter col-part = 1, after an Add without the partition value
\* (filter unknown) was recorded: a log batch whose first Add has
\* col-part = 2 and is pruned, and whose second Add, of the same file, has
\* col-part = 1 and is selected.
C23_Witness ==
    /\ BatchOk /\ is_log_batch /\ Len(actions) = 2
    /\ transform = TransformStd /\ partition_filter = PartPredicate
    /\ RowKey(AddRow("f", NoMap, SomeDv, NoStats)) \in seen_before
    /\ IsAdd(actions[1]) /\ IsAdd(actions[2]) /\ Key(1) = Key(2)
    /\ FilterValue(actions[1]) = "false" /\ DroppedByPruning(1) /\ ~Sel(1)
    /\ FilterValue(actions[2]) = "true" /\ Sel(2)

\* The transform spec has a Partition element whose field index is outside
\* the logical schema.
OutOfRange ==
    /\ transform.some
    /\ \E j \in PartitionElems : transform.elems[j].idx >= Len(LogicalSchema)
\* The Adds of the batch that passed data skipping.
ExaminedAdds == { i \in RowIdx : PassSkip(i) /\ IsAdd(actions[i]) }
MinOf(S) == CHOOSE m \in S : \A n \in S : m <= n

\* C25 -- Partition index out of range: under a transform spec with a
\* Partition element whose index is outside the logical schema, a batch
\* fails with that InternalError exactly when one of its Adds is examined;
\* it fails at the first such Add, no result (hence no selection) is
\* returned, and that Add neither reaches the dedup step nor records its
\* key.
C25_IndexOutOfRange ==
    (ItemIsBatch /\ OutOfRange) =>
        IF ExaminedAdds # {}
          THEN /\ result.status = "err"
               /\ result.err = "InternalError: out of bounds partition column field index"
               /\ visit_log.failed = MinOf(ExaminedAdds)
               /\ ~Reached(visit_log.failed)
               /\ NotRecordedBy(visit_log.failed)
          ELSE /\ visit_log.failed = 0
               /\ result.status = "err" => result.err = "EngineError: evaluate"

\* Under such a spec a log batch of a Remove and an Add of another file
\* failed at the Add: the key of the Remove is recorded, that of the Add is
\* not.
C25_Witness ==
    /\ pc = "returned" /\ OutOfRange /\ is_log_batch /\ Len(actions) = 2
    /\ IsRemove(actions[1]) /\ IsAdd(actions[2])
    /\ result.status = "err" /\ visit_log.failed = 2
    /\ Key(1) \in seen /\ Key(2) \notin seen

\* The row has no value for one of the partition fields the spec names.
ValueAbsent(row) == \E f \in PartitionFields : f.physical \notin DOMAIN row.add_pv

\* C26 -- An absent partition value is null, not an error: an examined Add
\* without a value for the partition column the transform spec names is
\* not the row a batch fails at; it is not pruned (the filter is unknown of
\* it) and goes on to the dedup step, and when it is selected its transform
\* holds the null literal of the field's type in the slots of that column.
C26_AbsentValueIsNull ==
    (ItemIsBatch /\ transform.some /\ ~OutOfRange) =>
        \A i \in ExaminedAdds :
            ValueAbsent(actions[i]) =>
                /\ visit_log.failed # i
                /\ BatchOk =>
                     /\ Reached(i)
                     /\ partition_filter.some => FilterValue(actions[i]) = "null"
                     /\ Sel(i) =>
                          /\ Transforms[i].some
                          /\ \A j \in PartitionElems :
                               LET f == LogicalSchema[transform.elems[j].idx + 1]
                               IN  f.physical \notin DOMAIN actions[i].add_pv =>
                                     Transforms[i].struct[j] = Literal(NullScalar(f.type))

\* Under the filter col-part = 1, an Add without partition values is
\* selected with a null literal for the partition column, next to an Add
\* with col-part = 2, which is pruned.
C26_Witness ==
    /\ BatchOk /\ transform = TransformStd /\ partition_filter = PartPredicate
    /\ Len(actions) = 2
    /\ DroppedByPruning(1)
    /\ IsAdd(actions[2]) /\ ValueAbsent(actions[2]) /\ Sel(2)
    /\ Len(Transforms) = 2 /\ ~Transforms[1].some
    /\ Transforms[2] = SomeExpr(<< Column("value"), Literal(NullScalar("integer")) >>)

\* The keys of the rows of the current item that reached the dedup step, if
\* it is a log batch.
ReachedLogKeys == IF is_log_batch THEN { Key(i) : i \in visit_log.checked } ELSE {}
\* The rows that get to the dedup step are the file actions that passed
\* data skipping, the Adds among them not pruned.
ReachesDedup(i) ==
    /\ PassSkip(i) /\ IsFileAction(actions[i])
    /\ (IsAdd(actions[i]) /\ transform.some /\ partition_filter.some
          /\ PartitionElems # {}) => FilterValue(actions[i]) # "false"
\* The seen-set holds the keys of the log-batch rows that reached the dedup
\* step, and no other.
SeenIsMinimal ==
    /\ pc = "upstream" => seen = recorded
    /\ pc = "returned" =>
         /\ seen = recorded \cup ReachedLogKeys
         /\ \A i \in RowIdx : Reached(i) => ReachesDedup(i)
         /\ BatchOk => \A i \in RowIdx : ReachesDedup(i) => Reached(i)
         /\ \A i \in RowIdx :
              (~is_log_batch \/ ~PassSkip(i) \/ DroppedByPruning(i)
                 \/ ~IsFileAction(actions[i])) =>
                  (Key(i) \in seen =>
                     (Key(i) \in recorded \/ \E h \in RowIdx :
                         h # i /\ is_log_batch /\ Reached(h) /\ Key(h) = Key(i)))

\* C27 -- The seen-set is append-only and minimal: no step removes a key
\* from it, and at every moment it is exactly the set of the keys of the
\* log-batch rows that reached the dedup step (Removes, and Adds that
\* passed data skipping and partition pruning); the key of a checkpoint
\* row, of a skipped or pruned Add or of a row that is no file action is in
\* it only when such a log-batch row of the same key put it there.
C27_SeenAppendOnlyMinimal ==
    /\ []SeenIsMinimal
    /\ [][seen \subseteq seen']_vars

\* Under the filter col-part = 1, with keys recorded earlier: a log batch
\* whose first Add is pruned, its key staying absent, and whose second Add
\* records its key.
C27_Witness ==
    /\ BatchOk /\ is_log_batch /\ Len(actions) = 2 /\ recorded # {}
    /\ DroppedByPruning(1) /\ Key(1) \notin seen
    /\ IsAdd(actions[2]) /\ Sel(2) /\ Key(2) \notin recorded /\ Key(2) \in seen

\* The selection vector the visitor starts from.
SkippingVector ==
    IF data_skipping_filter.some
      THEN DataSkippingApply(data_skipping_filter, actions)
      ELSE [i \in 1..Len(actions) |-> TRUE]

\* C28 -- The dedup visitor only refines the selection: the vector returned
\* has the length of the data-skipping vector (one bit per row) and a bit
\* is true in it only where it was true there; a row deselected by data
\* skipping is not examined: it is not the row a batch fails at, it does
\* not reach the dedup step, does not record its key and gets no transform;
\* every row selected by data skipping is examined: it reaches the dedup
\* step unless it is no file action or a pruned Add.
C28_VisitorOnlyRefines ==
    /\ ItemIsBatch => \A i \in RowIdx :
         ~PassSkip(i) =>
             /\ visit_log.failed # i
             /\ ~Reached(i)
             /\ Key(i) \in seen =>
                  (Key(i) \in recorded \/ \E h \in RowIdx : h # i /\ Reached(h)
                                                              /\ Key(h) = Key(i))
    /\ BatchOk =>
         /\ Len(result.selection_vector) = Len(actions)
         /\ Len(result.selection_vector) = Len(SkippingVector)
         /\ \A i \in RowIdx :
              /\ Sel(i) => SkippingVector[i]
              /\ PassSkip(i) <=> SkippingVector[i]
              /\ (~PassSkip(i) /\ i <= Len(Transforms)) => ~Transforms[i].some
              /\ (PassSkip(i) /\ ReachesDedup(i)) => Reached(i)

\* Under value > 5 AND col-part = 1 and a transform spec: a log batch whose
\* first Add fails data skipping only, its key staying absent, and whose
\* second Add is selected and has the one transform of the batch.
C28_Witness ==
    /\ BatchOk /\ is_log_batch /\ Len(actions) = 2
    /\ transform = TransformStd /\ data_skipping_filter = ThePredicate
    /\ IsAdd(actions[1]) /\ ~PassSkip(1) /\ FilterValue(actions[1]) # "false"
    /\ Key(1) \notin seen
    /\ Sel(2) /\ Len(Transforms) = 2 /\ ~Transforms[1].some /\ Transforms[2].some

-----------------------------------------------------------------------------
(* Properties of scans run side by side, over their whole history           *)

\* What the closure of scan s returned, item by item, from position k on.
RECURSIVE mapped_of(_, _)
mapped_of(s, k) ==
    IF k > Len(pulled) THEN << >>
    ELSE (IF pulled[k].scan = s THEN << mapped[k] >> ELSE << >>) \o mapped_of(s, k + 1)

\* Scan s run alone on the items it pulled, from position k on with the
\* scanner given: the results and the seen-set at the end.
RECURSIVE run_alone(_, _, _)
run_alone(s, scanner, k) ==
    IF k > Len(pulled) THEN [results |-> << >>, seen |-> scanner.seen]
    ELSE IF pulled[k].scan # s THEN run_alone(s, scanner, k + 1)
    ELSE LET r == process_scan_batch(scanner, pulled[k].batch, LogicalSchema,
                                     PairScan(s)[1], pulled[k].is_log, TRUE)
             rest == run_alone(s, r.scanner, k + 1)
         IN  [results |-> << r.result >> \o rest.results, seen |-> rest.seen]

\* C24 -- Independent scans share no mutable state: under every
\* interleaving of the pulls of two scans made by separate scan_action_iter
\* calls, each scan's closure returns, and its iterator yields, the same
\* sequence of results as when the scan runs alone on its items, and its
\* seen-set is the one it has then.
C24_IndependentScans ==
    \A s \in ScanIds :
        LET alone == run_alone(s, LogReplayScanner_new(PairScan(s)[2]), 1)
        IN  /\ mapped_of(s, 1) = alone.results
            /\ SelectSeq(mapped_of(s, 1), filter_passes)
                  = SelectSeq(alone.results, filter_passes)
            /\ scanners[s].seen = alone.seen

\* Scan 1, scan 2 and scan 1 again pulled a log batch of the same Add: each
\* scan selected it the first time, and scan 1 not the second time.
C24_Witness ==
    /\ Len(pulled) = 3
    /\ pulled[1].scan = 1 /\ pulled[2].scan = 2 /\ pulled[3].scan = 1
    /\ \A k \in 1..3 : pulled[k].is_log /\ pulled[k].batch = << PairAdd >>
                          /\ mapped[k].status = "ok"
    /\ mapped[1].selection_vector[1]
    /\ mapped[2].selection_vector[1]
    /\ ~mapped[3].selection_vector[1]

\* The rows of the items pulled, as (item, row) positions in the order in
\* which they were pulled and walked.
Positions ==
    UNION { { << k, i >> : i \in 1..Len(pulled[k].batch) } : k \in 1..Len(pulled) }
Before(p, q) == p[1] < q[1] \/ (p[1] = q[1] /\ p[2] < q[2])
ScanAt(p) == pulled[p[1]].scan
LogAt(p)  == pulled[p[1]].is_log
RowAt(p)  == pulled[p[1]].batch[p[2]]
KeyAt(p)  == RowKey(RowAt(p))
SelAt(p)  == mapped[p[1]].status = "ok" /\ mapped[p[1]].selection_vector[p[2]]

\* C29 -- At most one emission per key from the log: in the history of a
\* scan, once an Add is selected in a log batch, no row of the same key is
\* selected at any later position, be it a later row of that batch or a row
\* of a later log or checkpoint batch.
C29_AtMostOneEmission ==
    \A p \in Positions, q \in Positions :
        (ScanAt(p) = ScanAt(q) /\ Before(p, q) /\ LogAt(p)
           /\ IsAdd(RowAt(p)) /\ SelAt(p) /\ KeyAt(q) = KeyAt(p)) => ~SelAt(q)

\* A scan selected the first of two Adds of one file in a log batch and not
\* the second, and selected none of them in a later checkpoint batch.
C29_Witness ==
    \E a \in 1..Len(pulled), b \in 1..Len(pulled) :
        /\ a < b /\ pulled[a].scan = 2 /\ pulled[b].scan = 2
        /\ pulled[a].is_log /\ pulled[a].batch = << PairPartAdd, PairAdd >>
        /\ mapped[a].status = "ok" /\ mapped[a].selection_vector = << TRUE, FALSE >>
        /\ ~pulled[b].is_log /\ pulled[b].batch = << PairAdd >>
        /\ mapped[b].status = "ok" /\ mapped[b].selection_vector = << FALSE >>

\* What scan s does with a row: data skipping deselects it; partition
\* pruning drops it; it gets to the dedup step.
SkippedBy(s, row) ==
    /\ scanners[s].data_skipping_filter.some
    /\ ~DataSkippingApply(scanners[s].data_skipping_filter, << row >>)[1]
PrunedBy(s, row) ==
    /\ IsAdd(row) /\ PairScan(s)[1].some /\ scanners[s].partition_filter.some
    /\ PartitionElemsOf(PairScan(s)[1]) # {}
    /\ eval_sql_where(scanners[s].partition_filter,
                      PartitionEnvOf(PairScan(s)[1], row)) = "false"
GetsToDedup(s, row, is_log) ==
    /\ IsAdd(row) \/ (is_log /\ IsRemove(row))
    /\ ~SkippedBy(s, row) /\ ~PrunedBy(s, row)
\* Before position q, no row of its key got to the dedup step in a log
\* batch of the same scan.
NotOtherwiseSeen(q) ==
    \A o \in Positions :
        (ScanAt(o) = ScanAt(q) /\ Before(o, q) /\ LogAt(o) /\ KeyAt(o) = KeyAt(q))
        => ~GetsToDedup(ScanAt(o), RowAt(o), TRUE)

\* C30 -- A newer Add that is dropped does not shadow an older one: a key
\* is in a scan's seen-set only when a row of that key got to the dedup step
\* in one of its log batches, so an Add deselected by data skipping or by
\* partition pruning does not record its key; and an older Add of the same
\* key, later in the batch or in a later batch, that passes skipping and
\* pruning and is not otherwise seen is selected.
C30_DroppedAddDoesNotShadow ==
    /\ \A s \in ScanIds : \A key \in scanners[s].seen :
         \E o \in Positions : /\ ScanAt(o) = s /\ LogAt(o) /\ KeyAt(o) = key
                               /\ GetsToDedup(s, RowAt(o), TRUE)
    /\ \A p \in Positions, q \in Positions :
         (ScanAt(p) = ScanAt(q) /\ Before(p, q) /\ LogAt(p)
            /\ IsAdd(RowAt(p))
            /\ (SkippedBy(ScanAt(p), RowAt(p)) \/ PrunedBy(ScanAt(p), RowAt(p)))
            /\ IsAdd(RowAt(q)) /\ KeyAt(q) = KeyAt(p)
            /\ GetsToDedup(ScanAt(q), RowAt(q), LogAt(q))
            /\ NotOtherwiseSeen(q)) => SelAt(q)

\* Scan 1 deselected an Add by data skipping in one log batch; in a later
\* log batch it pruned an Add of the same file and selected the Add of that
\* file in the row after it.
C30_Witness ==
    \E a \in 1..Len(pulled), b \in 1..Len(pulled) :
        /\ a < b /\ pulled[a].scan = 1 /\ pulled[b].scan = 1
        /\ pulled[a].is_log /\ pulled[a].batch = << PairSkipAdd >>
        /\ SkippedBy(1, PairSkipAdd) /\ ~SelAt(<< a, 1 >>)
        /\ pulled[b].is_log /\ pulled[b].batch = << PairPartAdd, PairAdd >>
        /\ PrunedBy(1, PairPartAdd) /\ ~SelAt(<< b, 1 >>) /\ SelAt(<< b, 2 >>)
        /\ NotOtherwiseSeen(<< b, 2 >>)

-----------------------------------------------------------------------------
(* Properties of the iterator as its consumer sees it                       *)

\* The result summarised is one the iterator is to yield.
ShouldYield(e) == e.err \/ e.any
\* The positions in trace of the items the current call has pulled.
PulledByCall == (Len(trace) - pulls + 1)..Len(trace)

\* C11 -- The iterator yields, in the order of the input items, exactly the
\* results of the items whose processing failed or whose selection vector
\* holds a true: the positions yielded are increasing, every error and every
\* result with a selected row is among them, and no successful result with
\* an all-false selection vector is.
C11_YieldsExactlyInOrder ==
    /\ \A i \in 1..Len(out), j \in 1..Len(out) : i < j => out[i] < out[j]
    /\ { out[i] : i \in 1..Len(out) } = { k \in 1..Len(trace) : ShouldYield(trace[k]) }
    /\ call = "some" =>
         /\ yielded /\ out[Len(out)] = Len(trace)
         /\ trace[Len(trace)] = Summary(result)

\* An error, then a successful result without a selected row, then a result
\* with one: the first and the third are yielded.
C11_Witness ==
    /\ call = "some" /\ Len(trace) = 3 /\ out = << 1, 3 >>
    /\ trace[1].err /\ ~ShouldYield(trace[2]) /\ trace[3].any

\* C12 as stated -- every next call that returns has pulled exactly one
\* item from the upstream.
C12_Original ==
    call = "some" => pulls = 1

\* C12 amended -- a next call pulls the upstream items one at a time, each
\* processed once, until one result is an error or has a selected row, which
\* it returns, or the upstream is exhausted; the results it pulled before
\* that were all successful with an all-false selection vector.
C12_PullsUntilYield ==
    /\ pulls <= Len(trace)
    /\ call = "some" =>
         /\ pulls >= 1
         /\ ShouldYield(trace[Len(trace)])
         /\ \A k \in PulledByCall : k < Len(trace) => ~ShouldYield(trace[k])
    /\ call \in { "running", "none" } =>
         \A k \in PulledByCall : ~ShouldYield(trace[k])

\* One call pulled three items: two whose results were filtered out, then
\* the one it returned.
C12_Witness ==
    /\ call = "some" /\ pulls = 3
    /\ ~ShouldYield(trace[Len(trace) - 1]) /\ ShouldYield(trace[Len(trace)])

-----------------------------------------------------------------------------
(* Properties of the column-name codec                                      *)

Letters == { "a" }
Digits  == { "0" }
Blank(c) == c = " "
AllBlank(t) == \A i \in 1..Len(t) : Blank(t[i])
TwoBackticks == << FIELD_ESCAPE_CHAR, FIELD_ESCAPE_CHAR >>

\* C16 -- Round trip: the print of every column name, whatever its fields
\* hold, is accepted by the single-name parser and parses back to that name.
C16_RoundTrip ==
    cn_pc = "reparsed" => (cn_result.ok /\ cn_result.col = cn_path)

\* A name of two fields came back: an empty one and one holding a dot and a
\* backtick.
C16_Witness ==
    /\ cn_pc = "reparsed"
    /\ cn_path = << << >>, << ".", FIELD_ESCAPE_CHAR >> >>
    /\ cn_result.ok /\ cn_result.col = cn_path

BackticksBefore(t, i) == Cardinality({ k \in 1..(i - 1) : t[k] = FIELD_ESCAPE_CHAR })
Outside(t, i) == BackticksBefore(t, i) % 2 = 0
IsSep(c) == c = FIELD_SEPARATOR \/ c = COLUMN_SEPARATOR

\* Position i of t holds a blank of a run of blanks that touches a dot or a
\* comma for which sep(j) holds.
BlankAtSep(t, i, sep(_)) ==
    /\ Blank(t[i])
    /\ \E j \in 1..Len(t) :
         /\ IsSep(t[j]) /\ sep(j)
         /\ \/ j > i /\ \A k \in i..(j - 1) : Blank(t[k])
            \/ j < i /\ \A k \in (j + 1)..i : Blank(t[k])

RECURSIVE Without(_, _, _)
Without(t, drop(_), i) ==
    IF i > Len(t) THEN << >>
    ELSE (IF drop(i) THEN << >> ELSE << t[i] >>) \o Without(t, drop, i + 1)

\* t with the blanks around every dot and comma stripped.
StripAll(t) ==
    LET any(j)  == TRUE
        drop(i) == BlankAtSep(t, i, any)
    IN  Without(t, drop, 1)

\* t with the blanks around the dots and commas outside backtick escapes
\* stripped.
StripOutside(t) ==
    LET out_(j) == Outside(t, j)
        drop(i) == BlankAtSep(t, i, out_)
    IN  Without(t, drop, 1)

\* C18 as stated -- parse(s) equals the parse of s with the blanks around
\* dots and commas stripped, whenever both succeed.
C18_Original ==
    cn_pc = "parsed" =>
        LET r == from_str(StripAll(cn_text))
        IN  (cn_result.ok /\ r.ok) => cn_result.col = r.col

\* C18 amended -- the blanks stripped are those around the dots and commas
\* outside backtick escapes (the separators): s parses exactly when the
\* stripped string does, and to the same name.
C18_WhitespaceTolerance ==
    cn_pc = "parsed" =>
        LET r == from_str(StripOutside(cn_text))
        IN  /\ cn_result.ok <=> r.ok
            /\ cn_result.ok => cn_result.col = r.col

\* A string with blanks on both sides of a separator dot has been parsed.
C18_Witness ==
    /\ cn_pc = "parsed" /\ cn_text = << "a", " ", ".", " ", "a" >>
    /\ StripOutside(cn_text) = << "a", ".", "a" >>
    /\ cn_result.ok /\ cn_result.col = << << "a" >>, << "a" >> >>

\* A field that is printed as it is.
IsSimpleField(f) ==
    /\ f # << >>
    /\ f[1] \notin Digits
    /\ \A i \in 1..Len(f) : f[i] \in Letters \cup Digits \cup { "_" }

\* f with every backtick written twice: character i of f goes to position
\* i + (backticks before i), and a backtick also to the position after.
Doubled(f) ==
    LET at(i) == i + BackticksBefore(f, i)
        n     == Len(f) + BackticksBefore(f, Len(f) + 1)
    IN  [k \in 1..n |->
           f[CHOOSE i \in 1..Len(f) :
               k = at(i) \/ (f[i] = FIELD_ESCAPE_CHAR /\ k = at(i) + 1)]]

Printed(f) ==
    IF IsSimpleField(f) THEN f
    ELSE << FIELD_ESCAPE_CHAR >> \o Doubled(f) \o << FIELD_ESCAPE_CHAR >>

\* The printed fields joined by single dots.
RECURSIVE Joined(_)
Joined(path) ==
    IF Len(path) = 0 THEN << >>
    ELSE IF Len(path) = 1 THEN Printed(path[1])
    ELSE Joined(SubSeq(path, 1, Len(path) - 1)) \o << FIELD_SEPARATOR >>
           \o Printed(path[Len(path)])

LastBefore(t, i) ==
    LET S == { k \in 1..(i - 1) : ~Blank(t[k]) }
    IN  IF S = {} THEN 0 ELSE CHOOSE k \in S : \A h \in S : h <= k
\* Position i is where a field starts: at the start of the string or after
\* a dot, blanks aside.
AtFieldStart(t, i) ==
    LastBefore(t, i) = 0 \/ t[LastBefore(t, i)] = FIELD_SEPARATOR
IsSimple(c) == c \in Letters \cup Digits \cup { "_" }

\* The four ways a string is malformed as a single column name.
\* An escaped field is not closed before the end of the string.
Unterminated(t) == BackticksBefore(t, Len(t) + 1) % 2 = 1
\* The name is ended by a column separator.
EndedByComma(t) == \E i \in 1..Len(t) : t[i] = COLUMN_SEPARATOR /\ Outside(t, i)
\* An unescaped field starts with a digit.
DigitFirst(t) ==
    \E i \in 1..Len(t) : t[i] \in Digits /\ Outside(t, i) /\ AtFieldStart(t, i)
\* After a field, blanks aside, comes something other than a dot or a comma:
\* a character no field is made of, an opening backtick (the first of its
\* run) not at the start of a field, or a simple character where no field
\* starts or continues.
InvalidAfterField(t) ==
    \E i \in 1..Len(t) :
        /\ Outside(t, i) /\ ~Blank(t[i]) /\ ~IsSep(t[i])
        /\ \/ ~IsSimple(t[i]) /\ t[i] # FIELD_ESCAPE_CHAR
           \/ /\ t[i] = FIELD_ESCAPE_CHAR /\ ~AtFieldStart(t, i)
              /\ t[i - 1] # FIELD_ESCAPE_CHAR
           \/ IsSimple(t[i]) /\ ~AtFieldStart(t, i) /\ ~IsSimple(t[i - 1])

\* C20 -- The single-name parse fails in these four cases and in no other:
\* a string is rejected exactly when one of the four holds of it, and the
\* error returned is that of a case that holds.
C20_ParseFailures ==
    cn_pc = "parsed" =>
        /\ ~cn_result.ok <=> \/ Unterminated(cn_text)
                             \/ EndedByComma(cn_text)
                             \/ InvalidAfterField(cn_text)
                             \/ DigitFirst(cn_text)
        /\ cn_result.err = "No closing BACKTICK after field" => Unterminated(cn_text)
        /\ cn_result.err = "Trailing comma in column name" => EndedByComma(cn_text)
        /\ cn_result.err = "Invalid character after field" => InvalidAfterField(cn_text)
        /\ cn_result.err = "Unescaped field name cannot start with a digit" =>
               DigitFirst(cn_text)

\* A string ended by a comma has been rejected as such, none of the other
\* three cases holding of it.
C20_Witness ==
    /\ cn_pc = "parsed" /\ cn_text = << "a", ".", "_", "0", "," >>
    /\ ~cn_result.ok /\ cn_result.err = "Trailing comma in column name"
    /\ ~Unterminated(cn_text) /\ ~InvalidAfterField(cn_text) /\ ~DigitFirst(cn_text)

\* The commas of t outside backtick escapes, and the k-th of them in order
\* (0 before the first, Len(t) + 1 after the last).
OutsideCommas(t) == { i \in 1..Len(t) : t[i] = COLUMN_SEPARATOR /\ Outside(t, i) }
CommaAt(t, k) ==
    IF k = 0 THEN 0
    ELSE IF k > Cardinality(OutsideCommas(t)) THEN Len(t) + 1
    ELSE CHOOSE i \in OutsideCommas(t) :
           Cardinality({ j \in OutsideCommas(t) : j <= i }) = k
\* What t holds between the (k-1)-th and the k-th of these commas.
Segment(t, k) == SubSeq(t, CommaAt(t, k - 1) + 1, CommaAt(t, k) - 1)

\* C21 -- List parser: an empty or blank string gives the empty list; any
\* other string that parses gives one name more than it has commas outside
\* backtick escapes; the k-th name is what is written before, between or
\* after these commas, parsed as a single name, so it is the name without
\* fields exactly when nothing but blanks is written there (a leading, a
\* trailing or a doubled comma).
C21_ListParser ==
    cn_pc = "listed" =>
        /\ AllBlank(cn_text) => (cn_list.ok /\ cn_list.cols = << >>)
        /\ (cn_list.ok /\ ~AllBlank(cn_text)) =>
              /\ Len(cn_list.cols) = 1 + Cardinality(OutsideCommas(cn_text))
              /\ \A k \in 1..Len(cn_list.cols) :
                   /\ cn_list.cols[k] = from_str(Segment(cn_text, k)).col
                   /\ (cn_list.cols[k] = << >>) <=> AllBlank(Segment(cn_text, k))
        /\ cn_text = << "," >> => cn_list.cols = << << >>, << >> >>
        /\ cn_text = << "a", " ", "," >> => cn_list.cols = << << << "a" >> >>, << >> >>

\* A list of a leading comma, a second comma and an escaped field holding
\* a comma has been parsed into three names.
C21_Witness ==
    /\ cn_pc = "listed"
    /\ cn_text = << ",", ",", FIELD_ESCAPE_CHAR, ",", FIELD_ESCAPE_CHAR >>
    /\ cn_list.ok
    /\ cn_list.cols = << << >>, << >>, << << "," >> >> >>

-----------------------------------------------------------------------------
(* Properties of row classification and of the deletion-vector fields       *)

\* dv_unique_id as the fields of a deletion vector give it.
DvId(dv) ==
    IF dv.storageType = None THEN None
    ELSE unique_id_from_parts(dv.storageType, dv.pathOrInlineDv, dv.offset)
\* The key made of the add columns of a row, and of its remove columns.
AddKeyOf(row)    == FileActionKey(row.add_path, DvId(row.add_dv))
RemoveKeyOf(row) == FileActionKey(row.rm_path, DvId(row.rm_dv))
\* What a row is taken for in the current batch.
TakenForAdd(row)    == row.add_path # None
TakenForRemove(row) == row.add_path = None /\ is_log_batch /\ row.rm_path # None
TakenForNothing(row) == ~TakenForAdd(row) /\ ~TakenForRemove(row)
TakenKey(row) == IF TakenForAdd(row) THEN AddKeyOf(row) ELSE RemoveKeyOf(row)
\* The rows examined that go on to the dedup step: file actions, the Adds
\* among them not pruned.
GoOn == { i \in RowIdx : /\ PassSkip(i) /\ ~TakenForNothing(actions[i])
                         /\ ~PartitionPruned(actions[i]) }
\* The keys known when row i is examined.
TakenBefore(i) ==
    seen_before \cup
      (IF is_log_batch THEN { TakenKey(actions[h]) : h \in { g \in GoOn : g < i } } ELSE {})

\* C31 -- Row classification: in a batch processed successfully, an examined
\* row with add.path is an Add keyed by its add columns, also when
\* remove.path is present: it is selected exactly when that key is not yet
\* known (and it is not pruned), and in a log batch that key is recorded; an
\* examined row without add.path is a Remove only in a log batch and only
\* with remove.path: it is deselected and its key recorded; every other
\* examined row is deselected and does not get to the dedup step, so the
\* seen-set grows by the keys of the Adds and Removes of a log batch and by
\* nothing else.
C31_RowClassification ==
    BatchOk =>
        /\ \A i \in RowIdx : PassSkip(i) =>
             /\ TakenForAdd(actions[i]) =>
                  /\ Reached(i) <=> i \in GoOn
                  /\ Sel(i) <=> (i \in GoOn /\ AddKeyOf(actions[i]) \notin TakenBefore(i))
                  /\ (i \in GoOn /\ is_log_batch) => AddKeyOf(actions[i]) \in seen
             /\ TakenForRemove(actions[i]) =>
                  /\ ~Sel(i) /\ Reached(i)
                  /\ RemoveKeyOf(actions[i]) \in seen
             /\ TakenForNothing(actions[i]) => (~Sel(i) /\ ~Reached(i))
        /\ seen = seen_before \cup
             (IF is_log_batch THEN { TakenKey(actions[i]) : i \in GoOn } ELSE {})

\* After a log batch recorded a row with both paths under the key of its
\* add columns (and not under that of its remove columns), a checkpoint
\* batch of a Remove and that row: the Remove is taken for nothing, the row
\* for an Add already seen, and the seen-set stays as it was.
C31_Witness ==
    /\ BatchOk /\ ~is_log_batch /\ Len(actions) = 2
    /\ IsRemove(actions[1]) /\ ~Sel(1) /\ ~Reached(1)
    /\ actions[2] = BothRow /\ ~Sel(2)
    /\ seen = { AddKeyOf(BothRow) }
    /\ RemoveKeyOf(BothRow) \notin seen

\* The deletion vector has a storage type and no pathOrInlineDv.
DvIncomplete(dv) == dv.storageType # None /\ dv.pathOrInlineDv = None
\* The errors of partition-value parsing and of transform building.
PartitionErrors ==
    { "ParseError",
      "InternalError: out of bounds partition column field index",
      "InternalError: missing partition value" }
\* Every row of the batch is a Remove.
OnlyRemoves == Len(actions) > 0 /\ \A i \in RowIdx : IsRemove(actions[i])

TakenDv(row) == IF TakenForAdd(row) THEN row.add_dv ELSE row.rm_dv
\* The examined file actions of the batch.
ExaminedFiles == { i \in RowIdx : PassSkip(i) /\ ~TakenForNothing(actions[i]) }

\* C34 -- Deletion-vector identity fields: the key an examined file action
\* is checked and recorded under has no dv_unique_id exactly when the row
\* has no storageType, whatever its pathOrInlineDv and offset hold; with a
\* storageType and a pathOrInlineDv the row never fails for its deletion
\* vector, with or without offset; with a storageType and no pathOrInlineDv
\* the batch fails at that row (unless at an earlier one) with the
\* missing-data error, also when its partition values or the transform
\* spec are faulty, and the row neither reaches the dedup step nor records
\* a key.
C34_DvIdentityFields ==
    ItemIsBatch => \A i \in ExaminedFiles :
        LET row == actions[i]
            dv  == TakenDv(row)
        IN  /\ (Reached(i) /\ is_log_batch) =>
                 \E k \in seen :
                     /\ k.path = (IF TakenForAdd(row) THEN row.add_path ELSE row.rm_path)
                     /\ k.dv_unique_id = DvId(dv)
                     /\ k.dv_unique_id = None <=> dv.storageType = None
            /\ DvIncomplete(dv) =>
                 /\ visit_log.failed \in 1..i
                 /\ visit_log.failed = i =>
                      /\ result.err = "MissingData: deletionVector.pathOrInlineDv"
                      /\ ~Reached(i)
                      /\ seen = TakenBefore(i)
            /\ (~DvIncomplete(dv) /\ visit_log.failed = i) =>
                 result.err \in PartitionErrors

\* Under a transform spec whose field index is out of range, a log batch of
\* a Remove with pathOrInlineDv and offset but no storageType, recorded
\* without dv_unique_id, and an Add with a storageType and no
\* pathOrInlineDv, at which the batch fails with the missing-data error.
C34_Witness ==
    /\ pc = "returned" /\ is_log_batch /\ Len(actions) = 2 /\ transform = TransformOob
    /\ IsRemove(actions[1]) /\ actions[1].rm_dv = StrayDv
    /\ FileActionKey(actions[1].rm_path, None) \in seen
    /\ IsAdd(actions[2]) /\ actions[2].add_dv = BrokenDv
    /\ visit_log.failed = 2
    /\ result.err = "MissingData: deletionVector.pathOrInlineDv"
    /\ AddKeyOf(actions[2]) \notin seen

-----------------------------------------------------------------------------
(* Properties of the visitor called on its own                              *)

\* The number of getters the visitor asks for.
ExpectedGetters == IF vis_before.is_log_batch THEN 9 ELSE 5

\* C33 -- Getter-count check: when visit is handed a list of getters whose
\* length is not 9 for a log batch, or not 5 for a checkpoint batch, it
\* returns the InternalError of the wrong number of getters and has examined
\* no row: the selection vector, the transform list and the seen-set are
\* what they were when visit was called.  With the expected number it does
\* not return that error.
C33_GetterCountCheck ==
    vis_pc = "visited" =>
        IF vis_getters # ExpectedGetters
          THEN /\ ~vis_ret.ok
               /\ vis_ret.err = "InternalError: Wrong number of AddRemoveDedupVisitor getters"
               /\ vis.checked = {} /\ vis.failed = 0
               /\ vis.selection_vector = vis_before.selection_vector
               /\ vis.row_transform_exprs = vis_before.row_transform_exprs
               /\ vis.seen = vis_before.seen
          ELSE vis_ret.err # "InternalError: Wrong number of AddRemoveDedupVisitor getters"

\* The visitor of a log batch is handed the five getters of a checkpoint
\* batch: the selected Add of the batch stays selected and its unseen key
\* is not recorded.
C33_Witness ==
    /\ vis_pc = "visited" /\ vis_before.is_log_batch /\ vis_getters = 5
    /\ ~vis_ret.ok
    /\ vis_actions = << IterAdd >>
    /\ vis.selection_vector = << TRUE >>
    /\ vis_before.transform.some
    /\ vis.seen = {} /\ vis.row_transform_exprs = << >>

-----------------------------------------------------------------------------
(* Further properties of the column-name parsers                            *)

\* The backticks of b directly before position i.
RunBefore(b, i) ==
    LET S == { k \in 1..(i - 1) : b[k] # FIELD_ESCAPE_CHAR }
    IN  i - 1 - (IF S = {} THEN 0 ELSE CHOOSE k \in S : \A h \in S : h <= k)
\* Position i of b holds a backtick that is not the second of a doubled one
\* and is not followed by another.
ClosesAt(b, i) ==
    /\ b[i] = FIELD_ESCAPE_CHAR
    /\ RunBefore(b, i) % 2 = 0
    /\ i = Len(b) \/ b[i + 1] # FIELD_ESCAPE_CHAR
Closings(b) == { i \in 1..Len(b) : ClosesAt(b, i) }
\* What follows an opening backtick at the start of the string parsed.
EscapedBody == Tail(cn_text)

\* C35 -- Escaped-field scanning: of a string that opens with a backtick,
\* the field closes on the first backtick that (doubled backticks taken in
\* pairs) is not followed by another one; the field is what lies between,
\* every character as it stands (dots, commas and blanks included) and one
\* backtick for each doubled one; parsing goes on after the closing
\* backtick; without a closing backtick the parse fails for the unclosed
\* field.
C35_EscapedFieldScan ==
    (cn_pc = "parsed" /\ cn_text # << >> /\ cn_text[1] = FIELD_ESCAPE_CHAR) =>
        LET b == EscapedBody
            r == parse_escaped_field_name(b, << >>)
        IN  IF Closings(b) = {}
              THEN /\ ~r.ok
                   /\ ~cn_result.ok
                   /\ cn_result.err = "No closing BACKTICK after field"
              ELSE LET c == MinOf(Closings(b))
                   IN  /\ r.ok
                       /\ Doubled(r.name) = SubSeq(b, 1, c - 1)
                       /\ r.rest = SubSeq(b, c + 1, Len(b))
                       /\ cn_result.ok =>
                            (Len(cn_result.col) >= 1 /\ cn_result.col[1] = r.name)
                       /\ AllBlank(r.rest) =>
                            (cn_result.ok /\ cn_result.col = << r.name >>)

\* The string of three backticks, a dot and a backtick parses as the one
\* field made of a backtick and a dot.
C35_Witness ==
    /\ cn_pc = "parsed"
    /\ cn_text = << FIELD_ESCAPE_CHAR, FIELD_ESCAPE_CHAR, FIELD_ESCAPE_CHAR, ".",
                    FIELD_ESCAPE_CHAR >>
    /\ Closings(EscapedBody) = { 4 }
    /\ cn_result.ok /\ cn_result.col = << << FIELD_ESCAPE_CHAR, "." >> >>

\* The dots of t outside backtick escapes, the k-th of them (0 and Len + 1
\* at the ends), and what t holds between the (k-1)-th and the k-th.
OutsideDots(t) == { i \in 1..Len(t) : t[i] = FIELD_SEPARATOR /\ Outside(t, i) }
DotAt(t, k) ==
    IF k = 0 THEN 0
    ELSE IF k > Cardinality(OutsideDots(t)) THEN Len(t) + 1
    ELSE CHOOSE i \in OutsideDots(t) :
           Cardinality({ j \in OutsideDots(t) : j <= i }) = k
DotSegment(t, k) == SubSeq(t, DotAt(t, k - 1) + 1, DotAt(t, k) - 1)
NotBlank(c) == ~Blank(c)
Unescaped(seg) == \A i \in 1..Len(seg) : seg[i] # FIELD_ESCAPE_CHAR

\* C36 -- Unescaped fields may be empty: a string the single-name parser
\* accepts, unless it is empty or blank, gives one field more than it has
\* dots outside backtick escapes; the k-th field, when written without
\* backticks, is what stands before, between or after these dots, blanks
\* aside, so it is empty when nothing but blanks stands there (a leading, a
\* trailing or a doubled dot).  A single dot gives two empty fields, and
\* a..b gives a, the empty field and b.
C36_EmptyFields ==
    cn_pc = "parsed" =>
        /\ (cn_result.ok /\ ~AllBlank(cn_text)) =>
              /\ Len(cn_result.col) = 1 + Cardinality(OutsideDots(cn_text))
              /\ \A k \in 1..Len(cn_result.col) :
                   LET seg == DotSegment(cn_text, k)
                   IN  /\ Unescaped(seg) => cn_result.col[k] = SelectSeq(seg, NotBlank)
                       /\ AllBlank(seg) => cn_result.col[k] = << >>
        /\ (AllBlank(cn_text) \/ (Unescaped(cn_text) /\ \A i \in 1..Len(cn_text) :
                                     Blank(cn_text[i]) \/ cn_text[i] = FIELD_SEPARATOR))
             => cn_result.ok
        /\ cn_text = << "." >> => cn_result.col = << << >>, << >> >>
        /\ cn_text = << "a", ".", ".", "a" >> =>
              (cn_result.ok /\ cn_result.col = << << "a" >>, << >>, << "a" >> >>)

\* A string with a leading dot, a doubled dot and a trailing dot has been
\* parsed into four fields, three of them empty.
C36_Witness ==
    /\ cn_pc = "parsed"
    /\ cn_text = << ".", "a", ".", " ", "." >>
    /\ cn_result.ok
    /\ cn_result.col = << << >>, << "a" >>, << >>, << >> >>

\* What the claim says of the result of the single-name parser and the
\* result of the list parser for the string t.
ParsersAgree(single, list, t) ==
    /\ single.ok <=> (list.ok /\ Len(list.cols) <= 1)
    /\ single.ok =>
         IF AllBlank(t)
           THEN list.cols = << >> /\ single.col = << >>
           ELSE list.cols = << single.col >>
\* t up to and including its first comma outside backtick escapes.
UpToFirstComma(t) == SubSeq(t, 1, MinOf(OutsideCommas(t)))

\* C37 -- Agreement of the two parsers: the single-name parser accepts a
\* string exactly when the list parser accepts it with a list of at most
\* one name; the list then holds the name the single-name parser returns,
\* except that for an empty or blank string the list is empty and the name
\* has no fields.  A string whose part up to its first column separator is
\* rejected for that separator is rejected in the same way whatever follows
\* the separator, well formed or not.
C37_ParsersAgree ==
    /\ cn_pc = "parsed" =>
         /\ ParsersAgree(cn_result, parse_column_name_list(cn_text), cn_text)
         /\ (/\ OutsideCommas(cn_text) # {}
             /\ from_str(UpToFirstComma(cn_text)).err = "Trailing comma in column name") =>
                cn_result = ColErr("Trailing comma in column name")
         /\ cn_result.err = "Trailing comma in column name" =>
                OutsideCommas(cn_text) # {}
    /\ cn_pc = "listed" => ParsersAgree(from_str(cn_text), cn_list, cn_text)

\* A name followed by a comma and an unclosed backtick: the single-name
\* parser rejects it for the comma, the list parser for the unclosed field.
C37_Witness ==
    /\ cn_pc = "parsed"
    /\ cn_text = << "a", ".", "a", ",", FIELD_ESCAPE_CHAR >>
    /\ cn_result = ColErr("Trailing comma in column name")
    /\ ~parse_column_name_list(cn_text).ok

-----------------------------------------------------------------------------
(* Properties of read_result_next                                           *)

\* The positions, among the items data.next() gave, of the batches.
BatchItems == { k \in 1..Len(rr_nexts) : rr_nexts[k].kind = "Some(Ok)" }
\* The visits made for item k.
VisitsOf(k) == { v \in 1..Len(rr_visits) : rr_visits[v].item = k }

\* C38 -- read_result_next takes exactly one item from the iterator per
\* call: the k-th call returns true when the k-th item is a batch, and the
\* engine visitor was invoked exactly once with that batch; it returns false
\* when the iterator gave None and returns the error when the item is an
\* error, and in both cases the visitor was not invoked.  Over all calls the
\* visitor has seen the batches in the order of the iterator, each once.
C38_ReadResultNext ==
    /\ Len(rr_nexts) = Len(rr_rets)
    /\ \A k \in 1..Len(rr_rets) :
         /\ rr_nexts[k].kind = "Some(Ok)" =>
              /\ rr_rets[k] = Ok(TRUE)
              /\ Cardinality(VisitsOf(k)) = 1
              /\ \A v \in VisitsOf(k) : rr_visits[v].data = rr_nexts[k].data
         /\ rr_nexts[k].kind = "None" =>
              (rr_rets[k] = Ok(FALSE) /\ VisitsOf(k) = {})
         /\ rr_nexts[k].kind = "Some(Err)" =>
              (rr_rets[k] = Err(rr_nexts[k].data) /\ VisitsOf(k) = {})
    /\ Len(rr_visits) = Cardinality(BatchItems)
    /\ \A v \in 1..Len(rr_visits), w \in 1..Len(rr_visits) :
         v < w => rr_visits[v].item < rr_visits[w].item

\* Four calls: a batch, an error, another batch, and the end of the
\* iterator; the visitor has seen the two batches in order.
C38_Witness ==
    /\ Len(rr_rets) = 4
    /\ rr_rets = << Ok(TRUE), Err("read failed"), Ok(TRUE), Ok(FALSE) >>
    /\ rr_visits = << [item |-> 1, data |-> "x"], [item |-> 3, data |-> "y"] >>

-----------------------------------------------------------------------------
(* Properties of read_files                                                 *)

\* Whether the file gets a reader when its turn comes.
GetsReader(f) == f.local /\ f.opens /\ f.creates
\* What file number i of the list contributes to the iterator: one error
\* item when it gets no reader, otherwise the items of its reader in the
\* reader's order, a batch for a batch and an error for an error.
Contribution(files, i) ==
    IF ~GetsReader(files[i])
    THEN << [none |-> FALSE, file |-> i, pos |-> 0, ok |-> FALSE,
             err |-> IF ~files[i].local THEN "can only read local files"
                     ELSE IF ~files[i].opens THEN "open failed"
                     ELSE "create failed"] >>
    ELSE [k \in 1..Len(files[i].items) |->
            [none |-> FALSE, file |-> i, pos |-> k,
             ok |-> files[i].items[k] = "batch",
             err |-> IF files[i].items[k] = "batch" THEN "" ELSE "read failed"]]
\* What the first n files of the list contribute, in the order of the list.
RECURSIVE YieldedUpTo(_, _)
YieldedUpTo(files, n) ==
    IF n = 0 THEN << >>
    ELSE YieldedUpTo(files, n - 1) \o Contribution(files, n)
IsPrefix(a, b) == Len(a) <= Len(b) /\ \A k \in 1..Len(a) : a[k] = b[k]

\* C39 -- read_files on an empty list returns an empty iterator without
\* converting the schema or opening anything.  On another list the returned
\* iterator opens a file only when every item of the files before it has
\* been yielded, opens the files in the order of the list, each at most
\* once, and never one beyond the file it has reached; it yields, in the
\* order of the list, for each file either the items of its reader in the
\* reader's order or, when the location is not a local path, the file
\* cannot be opened or no reader can be created on it, exactly one error
\* item, after which the next item comes from a later file; at its end it
\* has yielded the contribution of every file.
C39_ReadFiles ==
    /\ (rf_pc # "new" /\ Len(rf_files) = 0) =>
         /\ rf_pc \in { "iter", "ended" }
         /\ ~rf_converted
         /\ rf_opened = << >>
         /\ rf_out = << >>
    /\ rf_pc \in { "new", "failed" } => (rf_opened = << >> /\ rf_out = << >>)
    /\ \A o \in 1..Len(rf_opened) :
         /\ rf_files[rf_opened[o].file].local
         /\ rf_opened[o].file <= rf_st.idx
         /\ rf_opened[o].at = Len(YieldedUpTo(rf_files, rf_opened[o].file - 1))
         /\ \A q \in 1..Len(rf_opened) :
              o < q => rf_opened[o].file < rf_opened[q].file
    /\ \A i \in 1..Len(rf_files) :
         (i <= rf_st.idx /\ rf_files[i].local) =>
             \E o \in 1..Len(rf_opened) : rf_opened[o].file = i
    /\ IsPrefix(rf_out, YieldedUpTo(rf_files, Len(rf_files)))
    /\ \A k \in 1..Len(rf_out) :
         ~GetsReader(rf_files[rf_out[k].file]) =>
             /\ ~rf_out[k].ok
             /\ \A j \in 1..Len(rf_out) :
                  /\ j < k => rf_out[j].file < rf_out[k].file
                  /\ j > k => rf_out[j].file > rf_out[k].file
    /\ rf_pc = "ended" => rf_out = YieldedUpTo(rf_files, Len(rf_files))

\* A list of two files ran to its end: the first cannot be opened and gave
\* one error item, then the second was opened and gave its two batches.
C39_Witness ==
    /\ rf_pc = "ended"
    /\ Len(rf_files) = 2
    /\ rf_files[1] = UnopenableFile
    /\ rf_files[2] = ReadableFile(<< "batch", "batch" >>)
    /\ Len(rf_out) = 3
    /\ ~rf_out[1].ok /\ rf_out[2].ok /\ rf_out[3].ok
    /\ rf_opened = << [file |-> 1, at |-> 0], [file |-> 2, at |-> 1] >>

====
